---- MODULE Spec2Model ----
(***************************************************************************)
(* Pipeline-parallel Llama (paddlenlp/transformers/llama/modeling_pp.py):  *)
(* the inter-stage argument envelope (parse_args / return_args), the slot  *)
(* resolver at the head of LlamaEmbeddingPipe.forward and                  *)
(* LlamaDecoderLayerPipe.forward, and the chain embedding -> decoder ->    *)
(* ... -> norm that exchanges envelopes.                                   *)
(*                                                                         *)
(* A tensor is a record: val (the content), dtype, stop_gradient, and obj  *)
(* (the identity of the Python object; clone() gives a new one).  Python's *)
(* None is the record None.  An envelope is [tuple, items]: a Python tuple *)
(* of items, or (tuple = FALSE) the bare value items[1].                   *)
(***************************************************************************)
EXTENDS Integers, Sequences, FiniteSets, TLC

\* ---------------------------------------------------------------- bounds
MaxLayers == 2      \* largest config.num_hidden_layers explored
MaxArity == 6       \* longest tuple handed to parse_args
MaxBatch == 2       \* most examples in one batch handed to the splitter
MaxStages == 3      \* largest pipeline-parallel degree (stages) explored
MaxTime == 4        \* latest reading of the clock explored
MaxSeq == 3         \* longest token sequence handed to the pooling
MaxRecords == 2     \* most records appended to one MetricsDumper
MaxCalls == 3       \* most calls of warning_once explored

\* ---------------------------------------------------------------- values
DTypes == {"bool", "int32", "int64", "float"}
InputDTypes == {"bool", "int32", "int64"}   \* widths of batch fields (masks, indices, ids)
Devices == {"gpu", "npu", "xpu"}

None == [val |-> 0, dtype |-> "none", stop_gradient |-> FALSE, obj |-> 0]

Tensor(v, d, sg, o) == [val |-> v, dtype |-> d, stop_gradient |-> sg, obj |-> o]

\* Two slots hold the same content (both empty, or equal value and width).
SameValue(a, b) == a.val = b.val /\ a.dtype = b.dtype

\* Tensor.clone(): same content and flags, a new object.
clone(t, o) == [t EXCEPT !.obj = o]

\* "x.stop_gradient = True" guarded by "if x is not None".
SetStopGradient(t) == IF t = None THEN None ELSE [t EXCEPT !.stop_gradient = TRUE]

\* The five names bound by parse_args; ok = FALSE when it raised.
Slots(h, a, r, p, b) ==
    [ok |-> TRUE, hidden_states |-> h, attention_mask |-> a,
     attn_mask_startend_row_indices |-> r, position_ids |-> p, alibi |-> b]

Raised ==
    [ok |-> FALSE, hidden_states |-> None, attention_mask |-> None,
     attn_mask_startend_row_indices |-> None, position_ids |-> None, alibi |-> None]

Tuple(s) == [tuple |-> TRUE, items |-> s]
Bare(t) == [tuple |-> FALSE, items |-> <<t>>]

\* ------------------------------------------------------------ parse_args
\* A 2-tuple is unpacked as (hidden_states, position_ids).
parse_args_pair_as_position_ids(args) ==
    IF args.tuple
    THEN LET it == args.items
             n == Len(it)
         IN  IF n = 5 THEN
                 Slots(it[1], SetStopGradient(it[2]), SetStopGradient(it[3]),
                       SetStopGradient(it[4]), SetStopGradient(it[5]))
             ELSE IF n = 4 THEN
                 Slots(it[1], SetStopGradient(it[2]), SetStopGradient(it[3]),
                       SetStopGradient(it[4]), None)
             ELSE IF n = 3 THEN
                 Slots(it[1], SetStopGradient(it[2]), SetStopGradient(it[3]), None, None)
             ELSE IF n = 2 THEN
                 Slots(it[1], None, None, SetStopGradient(it[2]), None)
             ELSE Raised
    ELSE Slots(args.items[1], None, None, None, None)

\* A 3-tuple is unpacked as (hidden_states, row-index mask, attention_mask).
parse_args_swapped_triple(args) ==
    IF args.tuple
    THEN LET it == args.items
             n == Len(it)
         IN  IF n = 5 THEN
                 Slots(it[1], SetStopGradient(it[2]), SetStopGradient(it[3]),
                       SetStopGradient(it[4]), SetStopGradient(it[5]))
             ELSE IF n = 4 THEN
                 Slots(it[1], SetStopGradient(it[2]), SetStopGradient(it[3]),
                       SetStopGradient(it[4]), None)
             ELSE IF n = 3 THEN
                 Slots(it[1], SetStopGradient(it[3]), SetStopGradient(it[2]), None, None)
             ELSE IF n = 2 THEN
                 Slots(it[1], SetStopGradient(it[2]), None, None, None)
             ELSE Raised
    ELSE Slots(args.items[1], None, None, None, None)

\* A tuple longer than 5 is read like a 5-tuple, the extra items dropped.
parse_args_lenient(args) ==
    IF args.tuple
    THEN LET it == args.items
             n == Len(it)
         IN  IF n >= 5 THEN
                 Slots(it[1], SetStopGradient(it[2]), SetStopGradient(it[3]),
                       SetStopGradient(it[4]), SetStopGradient(it[5]))
             ELSE IF n = 4 THEN
                 Slots(it[1], SetStopGradient(it[2]), SetStopGradient(it[3]),
                       SetStopGradient(it[4]), None)
             ELSE IF n = 3 THEN
                 Slots(it[1], SetStopGradient(it[2]), SetStopGradient(it[3]), None, None)
             ELSE IF n = 2 THEN
                 Slots(it[1], SetStopGradient(it[2]), None, None, None)
             ELSE Raised
    ELSE Slots(args.items[1], None, None, None, None)

\* The alibi slot of a 5-tuple keeps its gradient flag.
parse_args_alibi_keeps_gradient(args) ==
    IF args.tuple
    THEN LET it == args.items
             n == Len(it)
         IN  IF n = 5 THEN
                 Slots(it[1], SetStopGradient(it[2]), SetStopGradient(it[3]),
                       SetStopGradient(it[4]), it[5])
             ELSE IF n = 4 THEN
                 Slots(it[1], SetStopGradient(it[2]), SetStopGradient(it[3]),
                       SetStopGradient(it[4]), None)
             ELSE IF n = 3 THEN
                 Slots(it[1], SetStopGradient(it[2]), SetStopGradient(it[3]), None, None)
             ELSE IF n = 2 THEN
                 Slots(it[1], SetStopGradient(it[2]), None, None, None)
             ELSE Raised
    ELSE Slots(args.items[1], None, None, None, None)

\* A tuple whose length is not 2..5 matches no branch: the names stay
\* unbound and the first use (line 77) raises UnboundLocalError.
parse_args(args) ==
    IF args.tuple
    THEN LET it == args.items
             n == Len(it)
         IN  IF n = 5 THEN
                 Slots(it[1], SetStopGradient(it[2]), SetStopGradient(it[3]),
                       SetStopGradient(it[4]), SetStopGradient(it[5]))
             ELSE IF n = 4 THEN
                 Slots(it[1], SetStopGradient(it[2]), SetStopGradient(it[3]),
                       SetStopGradient(it[4]), None)
             ELSE IF n = 3 THEN
                 Slots(it[1], SetStopGradient(it[2]), SetStopGradient(it[3]), None, None)
             ELSE IF n = 2 THEN
                 Slots(it[1], SetStopGradient(it[2]), None, None, None)
             ELSE Raised
    ELSE Slots(args.items[1], None, None, None, None)

\* ----------------------------------------------------------- return_args
\* base is the allocator position: the clone of slot k is object base + k.
\* The slot itself is appended, not a clone of it.
AppendNoClone(ret, t, o) == IF t # None THEN Append(ret, t) ELSE ret

AppendClone(ret, t, o) == IF t # None THEN Append(ret, clone(t, o)) ELSE ret

\* The 1-tuple is not unwrapped.
return_args_no_unwrap(hidden_states, attention_mask, attn_mask_startend_row_indices, position_ids, alibi, base) ==
    LET r0 == <<hidden_states>>
        r1 == AppendClone(r0, attention_mask, base + 1)
        r2 == AppendClone(r1, attn_mask_startend_row_indices, base + 2)
        r3 == AppendClone(r2, position_ids, base + 3)
        r4 == AppendClone(r3, alibi, base + 4)
    IN  Tuple(r4)

return_args(hidden_states, attention_mask, attn_mask_startend_row_indices, position_ids, alibi, base) ==
    LET r0 == <<hidden_states>>
        r1 == AppendClone(r0, attention_mask, base + 1)
        r2 == AppendClone(r1, attn_mask_startend_row_indices, base + 2)
        r3 == AppendClone(r2, position_ids, base + 3)
        r4 == AppendClone(r3, alibi, base + 4)
    IN  IF Len(r4) = 1 THEN Bare(r4[1]) ELSE Tuple(r4)

\* ------------------------------------------------------------- resolvers
\* LlamaEmbeddingPipe.forward: the element-width tests made on the gpu
\* backend when config.alibi is off (lines 169-180).
EmbeddingGpuRules(s) ==
    LET attention_mask == s.attention_mask
        attn_mask_startend_row_indices == s.attn_mask_startend_row_indices
    IN  IF attention_mask # None /\ attention_mask.dtype = "int32" THEN
            [s EXCEPT !.attention_mask = None,
                      !.attn_mask_startend_row_indices = attention_mask,
                      !.position_ids = attn_mask_startend_row_indices]
        ELSE IF attention_mask # None /\ attention_mask.dtype = "int64" THEN
            [s EXCEPT !.attention_mask = None,
                      !.attn_mask_startend_row_indices = None,
                      !.position_ids = attention_mask]
        ELSE IF attn_mask_startend_row_indices # None
                /\ attn_mask_startend_row_indices.dtype = "int64" THEN
            [s EXCEPT !.attn_mask_startend_row_indices = None,
                      !.position_ids = attn_mask_startend_row_indices]
        ELSE s

\* LlamaEmbeddingPipe.forward, the "we can't distinguish" block (lines 152-183).
EmbeddingResolve(config_alibi, device, s) ==
    LET attn_mask_startend_row_indices == s.attn_mask_startend_row_indices
        position_ids == s.position_ids
        alibi == s.alibi
    IN  IF config_alibi /\ alibi = None /\ position_ids = None
           /\ attn_mask_startend_row_indices # None THEN
            [s EXCEPT !.alibi = attn_mask_startend_row_indices,
                      !.position_ids = None,
                      !.attn_mask_startend_row_indices = None]
        ELSE IF config_alibi /\ alibi = None /\ position_ids # None
                /\ attn_mask_startend_row_indices # None THEN
            [s EXCEPT !.alibi = position_ids,
                      !.position_ids = attn_mask_startend_row_indices,
                      !.attn_mask_startend_row_indices = None]
        ELSE IF ~config_alibi THEN
            IF device \in {"gpu"} THEN EmbeddingGpuRules(s)
            ELSE IF position_ids = None /\ attn_mask_startend_row_indices # None THEN
                [s EXCEPT !.position_ids = attn_mask_startend_row_indices,
                          !.attn_mask_startend_row_indices = None]
            ELSE s
        ELSE s

\* The first test also looks at the content of the attention_mask slot.
DecoderGpuRulesByContent(s) ==
    LET attention_mask == s.attention_mask
        attn_mask_startend_row_indices == s.attn_mask_startend_row_indices
    IN  IF attention_mask # None
           /\ (attention_mask.dtype = "int32" \/ attention_mask.val > 9) THEN
            [s EXCEPT !.attention_mask = None,
                      !.attn_mask_startend_row_indices = attention_mask,
                      !.position_ids = attn_mask_startend_row_indices]
        ELSE IF attention_mask # None /\ attention_mask.dtype = "int64" THEN
            [s EXCEPT !.attention_mask = None,
                      !.attn_mask_startend_row_indices = None,
                      !.position_ids = attention_mask]
        ELSE IF attn_mask_startend_row_indices # None
                /\ attn_mask_startend_row_indices.dtype = "int64" THEN
            [s EXCEPT !.attn_mask_startend_row_indices = None,
                      !.position_ids = attn_mask_startend_row_indices]
        ELSE s

\* The int32 test forgets to move the old row-index slot to position_ids.
DecoderGpuRulesNoShift(s) ==
    LET attention_mask == s.attention_mask
        attn_mask_startend_row_indices == s.attn_mask_startend_row_indices
    IN  IF attention_mask # None /\ attention_mask.dtype = "int32" THEN
            [s EXCEPT !.attention_mask = None,
                      !.attn_mask_startend_row_indices = attention_mask]
        ELSE IF attention_mask # None /\ attention_mask.dtype = "int64" THEN
            [s EXCEPT !.attention_mask = None,
                      !.attn_mask_startend_row_indices = None,
                      !.position_ids = attention_mask]
        ELSE IF attn_mask_startend_row_indices # None
                /\ attn_mask_startend_row_indices.dtype = "int64" THEN
            [s EXCEPT !.attn_mask_startend_row_indices = None,
                      !.position_ids = attn_mask_startend_row_indices]
        ELSE s

\* The third test is an independent "if", made on the decoded row-index slot
\* whether or not an attention_mask test has fired.
DecoderGpuRulesIndependent(s) ==
    LET attention_mask == s.attention_mask
        attn_mask_startend_row_indices == s.attn_mask_startend_row_indices
        s1 == IF attention_mask # None /\ attention_mask.dtype = "int32" THEN
                  [s EXCEPT !.attention_mask = None,
                            !.attn_mask_startend_row_indices = attention_mask,
                            !.position_ids = attn_mask_startend_row_indices]
              ELSE IF attention_mask # None /\ attention_mask.dtype = "int64" THEN
                  [s EXCEPT !.attention_mask = None,
                            !.attn_mask_startend_row_indices = None,
                            !.position_ids = attention_mask]
              ELSE s
    IN  IF attn_mask_startend_row_indices # None
           /\ attn_mask_startend_row_indices.dtype = "int64" THEN
            [s1 EXCEPT !.attn_mask_startend_row_indices = None,
                       !.position_ids = attn_mask_startend_row_indices]
        ELSE s1

\* LlamaDecoderLayerPipe.forward: the element-width tests made on the gpu
\* backend when config.alibi is off (lines 266-277).
DecoderGpuRules(s) ==
    LET attention_mask == s.attention_mask
        attn_mask_startend_row_indices == s.attn_mask_startend_row_indices
    IN  IF attention_mask # None /\ attention_mask.dtype = "int32" THEN
            [s EXCEPT !.attention_mask = None,
                      !.attn_mask_startend_row_indices = attention_mask,
                      !.position_ids = attn_mask_startend_row_indices]
        ELSE IF attention_mask # None /\ attention_mask.dtype = "int64" THEN
            [s EXCEPT !.attention_mask = None,
                      !.attn_mask_startend_row_indices = None,
                      !.position_ids = attention_mask]
        ELSE IF attn_mask_startend_row_indices # None
                /\ attn_mask_startend_row_indices.dtype = "int64" THEN
            [s EXCEPT !.attn_mask_startend_row_indices = None,
                      !.position_ids = attn_mask_startend_row_indices]
        ELSE s

\* The second alibi rule takes the bias from the row-index slot and leaves
\* position_ids where it was.
DecoderResolveRule2Swapped(config_alibi, device, s) ==
    LET attn_mask_startend_row_indices == s.attn_mask_startend_row_indices
        position_ids == s.position_ids
        alibi == s.alibi
    IN  IF config_alibi /\ alibi = None /\ position_ids = None
           /\ attn_mask_startend_row_indices # None THEN
            [s EXCEPT !.alibi = attn_mask_startend_row_indices,
                      !.position_ids = None,
                      !.attn_mask_startend_row_indices = None]
        ELSE IF config_alibi /\ alibi = None /\ position_ids # None
                /\ attn_mask_startend_row_indices # None THEN
            [s EXCEPT !.alibi = attn_mask_startend_row_indices,
                      !.attn_mask_startend_row_indices = None]
        ELSE IF ~config_alibi THEN
            IF device \in {"gpu"} THEN DecoderGpuRules(s)
            ELSE IF position_ids = None /\ attn_mask_startend_row_indices # None THEN
                [s EXCEPT !.position_ids = attn_mask_startend_row_indices,
                          !.attn_mask_startend_row_indices = None]
            ELSE s
        ELSE s

\* The element-width tests are made on every backend.
DecoderResolveAnyDevice(config_alibi, device, s) ==
    LET attn_mask_startend_row_indices == s.attn_mask_startend_row_indices
        position_ids == s.position_ids
        alibi == s.alibi
    IN  IF config_alibi /\ alibi = None /\ position_ids = None
           /\ attn_mask_startend_row_indices # None THEN
            [s EXCEPT !.alibi = attn_mask_startend_row_indices,
                      !.position_ids = None,
                      !.attn_mask_startend_row_indices = None]
        ELSE IF config_alibi /\ alibi = None /\ position_ids # None
                /\ attn_mask_startend_row_indices # None THEN
            [s EXCEPT !.alibi = position_ids,
                      !.position_ids = attn_mask_startend_row_indices,
                      !.attn_mask_startend_row_indices = None]
        ELSE IF ~config_alibi THEN
            IF device \in Devices THEN DecoderGpuRules(s)
            ELSE IF position_ids = None /\ attn_mask_startend_row_indices # None THEN
                [s EXCEPT !.position_ids = attn_mask_startend_row_indices,
                          !.attn_mask_startend_row_indices = None]
            ELSE s
        ELSE s

\* LlamaDecoderLayerPipe.forward, the "we can't distinguish" block (lines 249-280).
DecoderResolve(config_alibi, device, s) ==
    LET attn_mask_startend_row_indices == s.attn_mask_startend_row_indices
        position_ids == s.position_ids
        alibi == s.alibi
    IN  IF config_alibi /\ alibi = None /\ position_ids = None
           /\ attn_mask_startend_row_indices # None THEN
            [s EXCEPT !.alibi = attn_mask_startend_row_indices,
                      !.position_ids = None,
                      !.attn_mask_startend_row_indices = None]
        ELSE IF config_alibi /\ alibi = None /\ position_ids # None
                /\ attn_mask_startend_row_indices # None THEN
            [s EXCEPT !.alibi = position_ids,
                      !.position_ids = attn_mask_startend_row_indices,
                      !.attn_mask_startend_row_indices = None]
        ELSE IF ~config_alibi THEN
            IF device \in {"gpu"} THEN DecoderGpuRules(s)
            ELSE IF position_ids = None /\ attn_mask_startend_row_indices # None THEN
                [s EXCEPT !.position_ids = attn_mask_startend_row_indices,
                          !.attn_mask_startend_row_indices = None]
            ELSE s
        ELSE s

\* ------------------------------------------- LlamaEmbeddingPipe.forward
\* Lines 185-242 on the resolved slots r: the embedding lookup, the alibi
\* tensor, the prepared / lower-triangular attention mask and the two
\* assertions.  Raised when an assertion fails.  New tensors take the
\* objects base + 5 .. base + 7; their val encodes what they were built from.
EmbeddingBody(config_alibi, device, r, trainable, base) ==
    LET input_ids == r.hidden_states
        attention_mask == r.attention_mask
        attn_mask_startend_row_indices == r.attn_mask_startend_row_indices
        input_embeds == Tensor(400 + input_ids.val, "float", ~trainable, base + 5)
        alibi == IF config_alibi
                 THEN Tensor(300 + attention_mask.val, "float", TRUE, base + 6)
                 ELSE None
        prepared == IF attention_mask # None
                    THEN Tensor(100 + attention_mask.val,
                                IF device = "npu" THEN "bool" ELSE "float", TRUE, base + 7)
                    ELSE IF device = "npu"
                    THEN Tensor(200, "bool", TRUE, base + 7)
                    ELSE None
        mask == IF config_alibi /\ prepared = None
                THEN Tensor(100, "float", TRUE, base + 7)
                ELSE prepared
    IN  IF config_alibi /\ attn_mask_startend_row_indices # None THEN Raised
        ELSE IF attention_mask # None /\ attn_mask_startend_row_indices # None THEN Raised
        ELSE Slots(input_embeds, mask, attn_mask_startend_row_indices, r.position_ids, alibi)

\* ---------------------------------------- LlamaDecoderLayerPipe.forward
Granularities == {"full", "full_attn", "core_attn"}

\* config.num_hidden_layers: the number of decoder layers in the catalog.
num_hidden_layers == MaxLayers

\* The recompute condition does not look at the gradient of hidden_states.
DecoderCallIgnoringGradient(r, enable_recompute, layerwise_recompute, recompute_granularity, any_skip, recompute_use_reentrant) ==
    LET recompute_fn == IF any_skip THEN "rr_recompute" ELSE "recompute"
    IN  IF enable_recompute /\ layerwise_recompute
           /\ recompute_granularity = "full" THEN
            [fn |-> recompute_fn, position_ids |-> r.position_ids,
             attention_mask |-> r.attention_mask, alibi |-> r.alibi,
             attn_mask_startend_row_indices |-> r.attn_mask_startend_row_indices,
             use_reentrant |-> FALSE]
        ELSE
            [fn |-> "forward", position_ids |-> r.position_ids,
             attention_mask |-> r.attention_mask, alibi |-> r.alibi,
             attn_mask_startend_row_indices |-> r.attn_mask_startend_row_indices,
             use_reentrant |-> FALSE]

\* The pretrain branch passes only the row-index mask, not position_ids.
DecoderCallPretrainDropsPositionIds(r, enable_recompute, layerwise_recompute, recompute_granularity, any_skip, recompute_use_reentrant) ==
    LET has_gradient == ~r.hidden_states.stop_gradient
        recompute_fn == IF any_skip THEN "rr_recompute" ELSE "recompute"
    IN  IF enable_recompute /\ layerwise_recompute
           /\ recompute_granularity = "full" /\ has_gradient THEN
            IF r.attention_mask # None \/ r.alibi # None
               \/ r.attn_mask_startend_row_indices # None THEN
                [fn |-> recompute_fn, position_ids |-> r.position_ids,
                 attention_mask |-> r.attention_mask, alibi |-> r.alibi,
                 attn_mask_startend_row_indices |-> r.attn_mask_startend_row_indices,
                 use_reentrant |-> FALSE]
            ELSE
                [fn |-> recompute_fn, position_ids |-> None,
                 attention_mask |-> None, alibi |-> None,
                 attn_mask_startend_row_indices |-> r.attn_mask_startend_row_indices,
                 use_reentrant |-> recompute_use_reentrant]
        ELSE
            [fn |-> "forward", position_ids |-> r.position_ids,
             attention_mask |-> r.attention_mask, alibi |-> r.alibi,
             attn_mask_startend_row_indices |-> r.attn_mask_startend_row_indices,
             use_reentrant |-> FALSE]

\* Which forward the layer runs and the keyword arguments it passes
\* (lines 282-316).  A keyword the call leaves out takes its default, None.
DecoderCall(r, enable_recompute, layerwise_recompute, recompute_granularity, any_skip, recompute_use_reentrant) ==
    LET has_gradient == ~r.hidden_states.stop_gradient
        recompute_fn == IF any_skip THEN "rr_recompute" ELSE "recompute"
    IN  IF enable_recompute /\ layerwise_recompute
           /\ recompute_granularity = "full" /\ has_gradient THEN
            IF r.attention_mask # None \/ r.alibi # None
               \/ r.attn_mask_startend_row_indices # None THEN
                [fn |-> recompute_fn, position_ids |-> r.position_ids,
                 attention_mask |-> r.attention_mask, alibi |-> r.alibi,
                 attn_mask_startend_row_indices |-> r.attn_mask_startend_row_indices,
                 use_reentrant |-> FALSE]
            ELSE
                [fn |-> recompute_fn, position_ids |-> r.position_ids,
                 attention_mask |-> None, alibi |-> None,
                 attn_mask_startend_row_indices |-> r.attn_mask_startend_row_indices,
                 use_reentrant |-> recompute_use_reentrant]
        ELSE
            [fn |-> "forward", position_ids |-> r.position_ids,
             attention_mask |-> r.attention_mask, alibi |-> r.alibi,
             attn_mask_startend_row_indices |-> r.attn_mask_startend_row_indices,
             use_reentrant |-> FALSE]

NoCall ==
    [fn |-> "none", position_ids |-> None, attention_mask |-> None, alibi |-> None,
     attn_mask_startend_row_indices |-> None, use_reentrant |-> FALSE]

\* ================================================================ _Timer
\* A timer object: _Timer.__init__ at clock reading t.
NewTimer(t) == [elapsed_ |-> 0, started_ |-> FALSE, start_time |-> t]

\* What a method call does: the object afterwards, whether the call raised
\* AssertionError, and the value returned (0 where the method returns None).
Outcome(t, raised, ret) == [timer |-> t, raised |-> raised, ret |-> ret]

\* _Timer.start at clock reading t.
start(self, t) ==
    IF self.started_ THEN Outcome(self, TRUE, 0)
    ELSE Outcome([self EXCEPT !.start_time = t, !.started_ = TRUE], FALSE, 0)

\* stop without its assertion.
stop_unasserted(self, t) ==
    Outcome([self EXCEPT !.elapsed_ = @ + (t - self.start_time), !.started_ = FALSE],
            FALSE, 0)

\* _Timer.stop at clock reading t.
stop(self, t) ==
    IF ~self.started_ THEN Outcome(self, TRUE, 0)
    ELSE Outcome([self EXCEPT !.elapsed_ = @ + (t - self.start_time),
                              !.started_ = FALSE], FALSE, 0)

\* _Timer.reset
reset(self) == Outcome([self EXCEPT !.elapsed_ = 0, !.started_ = FALSE], FALSE, 0)

\* elapsed that does not set a running timer back to running.
elapsed_left_stopped(self, reset_flag, t) ==
    LET stopped == IF self.started_ THEN stop(self, t).timer ELSE self
        cleared == IF reset_flag THEN reset(stopped).timer ELSE stopped
    IN  Outcome(cleared, FALSE, stopped.elapsed_)

\* _Timer.elapsed(reset) at clock reading t.
elapsed(self, reset_flag, t) ==
    LET started_ == self.started_
        stopped == IF self.started_ THEN stop(self, t) ELSE Outcome(self, FALSE, 0)
        elapsed_ == stopped.timer.elapsed_
        cleared == IF reset_flag THEN reset(stopped.timer) ELSE stopped
        again == IF started_ THEN start(cleared.timer, t) ELSE cleared
    IN  Outcome(again.timer, stopped.raised \/ again.raised, elapsed_)

\* RuntimeTimer.log at clock reading t; returns the runtime it prints.
RuntimeTimer_log(self, t) ==
    LET runtime == elapsed(self, TRUE, t)
        stopped == IF runtime.timer.started_ THEN stop(runtime.timer, t) ELSE runtime
    IN  Outcome(reset(stopped.timer).timer, runtime.raised \/ stopped.raised, runtime.ret)

\* ======================================================== BiEncoderModel
\* sentence_pooling_method: the three the code knows and one it does not.
PoolingMethods == {"mean", "cls", "last", "max"}

\* tokenizer.padding_side: the two the code knows and one it does not.
PaddingSides == {"right", "left", "top"}

\* The attention mask of one sequence of len tokens of which n are real.
AttentionMask(len, side, n) ==
    [i \in 1..len |-> IF side = "left" THEN (IF i > len - n THEN 1 ELSE 0)
                                        ELSE (IF i <= n THEN 1 ELSE 0)]

\* mask.sum(axis=1)
MaskSum(mask) == Cardinality({i \in 1..Len(mask) : mask[i] = 1})

\* The positions (from 0) of the last hidden state a pooling reads, or the
\* error it raised and the value the error's message names ("" for none).
Selected(positions) == [kind |-> "ok", names |-> "", positions |-> positions]
PoolingError(kind, names) == [kind |-> kind, names |-> names, positions |-> {}]

\* hidden_state[..., index]: a negative index counts from the end.
At(len, index) ==
    IF index >= len \/ index < -len THEN PoolingError("IndexError", "")
    ELSE Selected({IF index < 0 THEN len + index ELSE index})

\* The unmasked positions, which the mean is taken over.
Unmasked(mask) == Selected({i - 1 : i \in {j \in 1..Len(mask) : mask[j] = 1}})

\* BiEncoderModel.sentence_embedding (lines 96-110)
sentence_embedding(sentence_pooling_method, mask) ==
    IF sentence_pooling_method = "mean" THEN Unmasked(mask)
    ELSE IF sentence_pooling_method = "cls" THEN At(Len(mask), 0)
    ELSE IF sentence_pooling_method = "last" THEN At(Len(mask), MaskSum(mask) - 1)
    ELSE PoolingError("ValueError", sentence_pooling_method)

\* The pooling of BiEncoderModel.encode_sentences (lines 245-261).  The
\* last branch formats self.pooling_method, an attribute the object lacks.
encode_sentences(sentence_pooling_method, padding_side, mask) ==
    IF sentence_pooling_method = "last" THEN
        IF padding_side = "right" THEN At(Len(mask), MaskSum(mask) - 1)
        ELSE IF padding_side = "left" THEN At(Len(mask), -1)
        ELSE PoolingError("NotImplementedError", padding_side)
    ELSE IF sentence_pooling_method = "cls" THEN At(Len(mask), 1)
    ELSE IF sentence_pooling_method = "mean" THEN Unmasked(mask)
    ELSE PoolingError("AttributeError", "")

\* ================================================================ state
VARIABLES
    \* the codec on its own: return_args, then parse_args
    cpc,            \* "encode", "decode", "done"
    cencoded,       \* TRUE when cenv came out of return_args
    cslots,         \* the named slots handed to return_args
    cenv,           \* the envelope
    cout,           \* the result of parse_args
    \* the pipeline: embedding -> decoder layers -> norm
    config_alibi,       \* config.alibi
    device,             \* get_env_device()
    pc,                 \* the layer that runs next, "done", "error" or "idle"
    layer,              \* decoder layers that have run
    env,                \* the envelope in flight
    nextObj,            \* object allocator
    lastLayer,          \* the layer that ran last
    decoded,            \* what its parse_args returned
    resolved,           \* its slots after the resolver block
    sent,               \* the slots the last emitting layer gave return_args
    prevSent,           \* sent, as it was when lastLayer started
    call,               \* the forward call the last decoder layer made
    envLog,             \* the envelopes emitted so far, in order
    \* the resolver run twice: two envelopes of equal widths, other contents
    hpc,            \* "start", "done" or "idle"
    hAlibi,         \* config.alibi
    hDevice,        \* get_env_device()
    hEnvA, hEnvB,   \* the two envelopes
    hEmbA, hEmbB,   \* what the embedding layer's resolver makes of them
    hDecA, hDecB,   \* what the decoder layer's resolver makes of them
    \* the recompute policy: the constructor's decoder descriptors, one forward
    rpc,                    \* "start", "built", "done" or "idle"
    rN,                     \* config.num_hidden_layers
    rNoRecompute,           \* config.no_recompute_layers
    rEnable,                \* enable_recompute of the decoder layers
    rGranularity,           \* config.recompute_granularity
    rUseReentrant,          \* config.recompute_use_reentrant
    rLayers,                \* the decoder descriptors, entry i + 1 for layer i
    rIdx,                   \* the layer whose forward ran
    rSlots,                 \* the resolved slots it ran on
    rCall,                  \* the call it made
    \* the batch splitter
    spc,            \* "start", "done" or "idle"
    sInputs,        \* the argument: its type and its data
    sAfter,         \* the argument's data after the call (pop removes fields)
    sOut,           \* what the call returned, or that it raised
    \* the constructor
    bpc,            \* "start", "built" or "idle"
    bConfig,        \* config, and what the hybrid communicate group reports
    bLayers,        \* the sequential layers added so far, in order
    bArgs,          \* the arguments handed to PipelineLayer.__init__
    bShared,        \* shared-weight group key -> the group's tensor of record
    bWrite,         \* the last write to a shared tensor: through which layer, what
    \* a _Timer
    timer,          \* the timer object
    now,            \* the clock, time.time()
    tLast,          \* the last call: method, arguments, outcome, the object before
    \* the pooling of BiEncoderModel
    poolIn,         \* the pooling method, the padding side, the attention mask
    poolPath,       \* "sentence_embedding", "encode_sentences", "start" or "idle"
    poolOut,        \* what the pooling selected or raised
    \* a MetricsDumper: the main process and its writer process
    dMain,          \* the main process: "running", "joining" (in close, at
                    \* process.join), "closed", "raised" (an exception left the
                    \* signal handler), "exit_joining" (atexit's close), "exited"
    dWriter,        \* the writer process: "get", "write", "exited"
    dItem,          \* the record the writer took from the queue
    dWaited,        \* TRUE once queue.get has timed out on an empty queue
    dQueue,         \* self.queue
    dFile,          \* the lines of the metrics file (the ids of the records)
    dAppended,      \* every record passed to append, in order
    dClose,         \* the last call of close: its state, the records appended before
    dSignal,        \* the signal delivered, and what its handler did
    \* a Logger: warning_once
    wEnable,        \* self._is_enable
    wLevel,         \* the level of self.logger, a key of log_config
    wCache,         \* the keys lru_cache holds for warning_once
    wCalls,         \* every call of warning_once, in order, and whether it emitted
    \* a Logger: processing and use_terminator, main thread and printer thread
    gTerm,          \* self.handler.terminator
    gEnd,           \* the end flag of processing
    gBlock,         \* the with-block of processing: "idle", "before", "inside", "left"
                    \* (normally) or "raised" (an exception left it)
    gPrinter,       \* the printer thread: "unstarted", "loop", "enter", "set",
                    \* "info", "restore", "sleep", "terminated"
    gPOld,          \* old_terminator of the printer's use_terminator
    gMainCtx,       \* the main thread's use_terminator: "out", "set", "in"
    gMOld,          \* old_terminator of the main thread's use_terminator
    gMArg,          \* the terminator the main thread asked for
    gLast           \* the last message emitted: by which thread, inside a
                    \* use_terminator context or not, with which terminator

codecVars == <<cpc, cencoded, cslots, cenv, cout>>
pipeVars == <<config_alibi, device, pc, layer, env, nextObj,
              lastLayer, decoded, resolved, sent, prevSent, call, envLog>>
pairVars == <<hpc, hAlibi, hDevice, hEnvA, hEnvB, hEmbA, hEmbB, hDecA, hDecB>>
\* the variables of the harnesses around single functions
recVars == <<rpc, rN, rNoRecompute, rEnable, rGranularity, rUseReentrant,
             rLayers, rIdx, rSlots, rCall>>
splitVars == <<spc, sInputs, sAfter, sOut>>
buildVars == <<bpc, bConfig, bLayers, bArgs, bShared, bWrite>>
timerVars == <<timer, now, tLast>>
\* the variables of the utilities (timer, logger, metrics dumper, pooling)
poolVars == <<poolIn, poolPath, poolOut>>
dumpVars == <<dMain, dWriter, dItem, dWaited, dQueue, dFile, dAppended, dClose, dSignal>>
warnVars == <<wEnable, wLevel, wCache, wCalls>>
procVars == <<gTerm, gEnd, gBlock, gPrinter, gPOld, gMainCtx, gMOld, gMArg, gLast>>
logVars == <<warnVars, procVars>>
utilVars == <<timerVars, poolVars, dumpVars, logVars>>
harnessVars == <<pairVars, recVars, splitVars, buildVars, utilVars>>
\* the variables of the pipeline-parallel model
llamaVars == <<codecVars, pipeVars, pairVars, recVars, splitVars, buildVars>>
\* what each utility leaves alone
timerOthers == <<llamaVars, poolVars, dumpVars, logVars>>
poolOthers == <<llamaVars, timerVars, dumpVars, logVars>>
dumpOthers == <<llamaVars, timerVars, poolVars, logVars>>
warnOthers == <<llamaVars, timerVars, poolVars, dumpVars, procVars>>
procOthers == <<llamaVars, timerVars, poolVars, dumpVars, warnVars>>
vars == <<codecVars, pipeVars, harnessVars>>

\* --------------------------------------------------------------- inputs
\* The tensor a caller puts at position k: content k, object k.
Input(k, d, sg) == Tensor(k, d, sg, k)

\* What position k > 1 of an input can hold: nothing, or a tensor of any
\* input width.
AuxChoices(k, sg) == {None} \cup {Input(k, d, sg) : d \in InputDTypes}

\* Every item sequence of length n (n >= 1) whose first item is the hidden
\* value (token ids, int64).
RECURSIVE Items(_, _)
Items(n, sg) ==
    IF n = 1 THEN {<<Input(1, "int64", sg)>>}
    ELSE {Append(s, t) : s \in Items(n - 1, sg), t \in AuxChoices(n, sg)}

\* Tuples of length 0 .. MaxArity and the bare value.
RawEnvelopes(sg) ==
    {Tuple(<<>>)} \cup {Bare(Input(1, "int64", sg))}
    \cup UNION {{Tuple(s) : s \in Items(n, sg)} : n \in 1..MaxArity}

\* What the first stage is given: a tuple of 2..5 items or the bare ids.
FirstStageInputs(sg) ==
    {Bare(Input(1, "int64", sg))}
    \cup UNION {{Tuple(s) : s \in Items(n, sg)} : n \in 2..5}

\* The first-stage tuple _prepare_pipeline_inputs_func builds from a batch:
\* (input_ids, attention_mask, attn_mask_startend_row_indices, position_ids),
\* None for a field the batch lacks; a boolean padding mask, int32 row
\* indices, int64 position ids.
BatchInputs ==
    {Tuple(<<Input(1, "int64", TRUE), a, r, p>>) :
        a \in {None, Input(2, "bool", TRUE)},
        r \in {None, Input(3, "int32", TRUE)},
        p \in {None, Input(4, "int64", TRUE)}}

NamedSlots(sg) ==
    {Slots(s[1], s[2], s[3], s[4], s[5]) : s \in Items(5, sg)}

FirstFreshObj == MaxArity + 1

\* ---------------------------------------------------------------- codec
PipeIdle ==
    /\ config_alibi = FALSE /\ device = "gpu"
    /\ pc = "idle" /\ layer = 0 /\ env = Tuple(<<>>) /\ nextObj = FirstFreshObj
    /\ lastLayer = "none" /\ decoded = Raised /\ resolved = Raised
    /\ sent = Raised /\ prevSent = Raised /\ call = NoCall
    /\ envLog = <<>>

PairIdle ==
    /\ hpc = "idle" /\ hAlibi = FALSE /\ hDevice = "gpu"
    /\ hEnvA = Tuple(<<>>) /\ hEnvB = Tuple(<<>>)
    /\ hEmbA = Raised /\ hEmbB = Raised /\ hDecA = Raised /\ hDecB = Raised

RecIdle ==
    /\ rpc = "idle" /\ rN = 0 /\ rNoRecompute = [is_none |-> TRUE, layers |-> {}]
    /\ rEnable = FALSE /\ rGranularity = "full" /\ rUseReentrant = FALSE
    /\ rLayers = <<>> /\ rIdx = 0 /\ rSlots = Raised /\ rCall = NoCall

SplitIdle ==
    /\ spc = "idle" /\ sInputs = [type |-> "dict", data |-> <<>>]
    /\ sAfter = <<>> /\ sOut = [ok |-> FALSE, first |-> Tuple(<<>>), last |-> Tuple(<<>>)]

NoConfig ==
    [num_hidden_layers |-> 0, pipe |-> 1, virtual_pp_degree |-> 1,
     tie_word_embeddings |-> FALSE, has_dpo_config |-> FALSE,
     no_recompute_layers |-> [is_none |-> TRUE, layers |-> {}],
     model_parallel_world_size |-> 1, model_parallel_rank |-> 0,
     tensor_parallel_degree |-> 1, tensor_parallel_rank |-> 0]

NoArgs ==
    [seg_method |-> "", loss_fn |-> "", recompute_interval |-> 0,
     num_virtual_pipeline_stages |-> 0]

NoWrite == [via |-> 0, value |-> 0]

BuildIdle ==
    /\ bpc = "idle" /\ bConfig = NoConfig /\ bLayers = <<>> /\ bArgs = NoArgs
    /\ bShared = <<>> /\ bWrite = NoWrite

NoTimerCall ==
    [op |-> "none", reset_flag |-> FALSE, at |-> 0, raised |-> FALSE, ret |-> 0,
     before |-> NewTimer(0)]

TimerIdle == timer = NewTimer(0) /\ now = 0 /\ tLast = [NoTimerCall EXCEPT !.op = "idle"]

PoolIdle ==
    /\ poolIn = [method |-> "cls", padding_side |-> "right", mask |-> <<1>>]
    /\ poolPath = "idle"
    /\ poolOut = Selected({})

\* queue.put(None): the item that tells the writer to exit.
NoneItem == [id |-> 0, serialisable |-> TRUE]

NoClose == [state |-> "none", before |-> <<>>]
NoSignal == [sig |-> "none", handler_raised |-> FALSE, stop_signalled |-> FALSE,
             closed |-> FALSE]

DumpIdle ==
    /\ dMain = "idle" /\ dWriter = "idle" /\ dItem = NoneItem /\ dWaited = FALSE
    /\ dQueue = <<>> /\ dFile = <<>> /\ dAppended = <<>>
    /\ dClose = NoClose /\ dSignal = NoSignal

\* handler.terminator of a logging.StreamHandler
DefaultTerminator == "\n"

NoEmission == [thread |-> "none", inside |-> FALSE, terminator |-> DefaultTerminator]

WarnIdle == wEnable = TRUE /\ wLevel = "DEBUG" /\ wCache = {} /\ wCalls = <<>>

ProcIdle ==
    /\ gTerm = DefaultTerminator /\ gEnd = FALSE /\ gBlock = "idle"
    /\ gPrinter = "unstarted" /\ gPOld = DefaultTerminator
    /\ gMainCtx = "out" /\ gMOld = DefaultTerminator /\ gMArg = DefaultTerminator
    /\ gLast = NoEmission

LogIdle == WarnIdle /\ ProcIdle

UtilIdle == TimerIdle /\ PoolIdle /\ DumpIdle /\ LogIdle

HarnessIdle == PairIdle /\ RecIdle /\ SplitIdle /\ BuildIdle /\ UtilIdle

CodecIdle ==
    /\ cpc = "idle" /\ cencoded = FALSE /\ cslots = Raised
    /\ cenv = Tuple(<<>>) /\ cout = Raised

InitCodec ==
    /\ PipeIdle
    /\ HarnessIdle
    /\ cout = Raised
    /\ \E sg \in BOOLEAN :
        \/ /\ cpc = "encode" /\ cencoded = TRUE
           /\ cslots \in NamedSlots(sg)
           /\ cenv = Tuple(<<>>)
        \/ /\ cpc = "decode" /\ cencoded = FALSE
           /\ cslots = Raised
           /\ cenv \in RawEnvelopes(sg)

\* return_args(hidden_states, attention_mask, ..., alibi)
Encode ==
    /\ cpc = "encode"
    /\ cenv' = return_args(cslots.hidden_states, cslots.attention_mask,
                           cslots.attn_mask_startend_row_indices,
                           cslots.position_ids, cslots.alibi, FirstFreshObj)
    /\ cpc' = "decode"
    /\ UNCHANGED <<cencoded, cslots, cout, pipeVars, harnessVars>>

\* parse_args(args)
Decode ==
    /\ cpc = "decode"
    /\ cout' = parse_args(cenv)
    /\ cpc' = "done"
    /\ UNCHANGED <<cencoded, cslots, cenv, pipeVars, harnessVars>>

NextCodec == Encode \/ Decode

SpecCodec == InitCodec /\ [][NextCodec]_vars

\* ------------------------------------------------------------- pipeline
PipeStart ==
    /\ CodecIdle
    /\ HarnessIdle
    /\ envLog = <<>>
    /\ config_alibi \in BOOLEAN
    /\ device \in Devices
    /\ pc = "embedding"
    /\ layer = 0
    /\ nextObj = FirstFreshObj
    /\ lastLayer = "none"
    /\ decoded = Raised /\ resolved = Raised
    /\ sent = Raised /\ prevSent = Raised
    /\ call = NoCall

\* Any envelope of arity 1..5 enters the first stage (batch data carries no
\* gradient).
Init == PipeStart /\ env \in FirstStageInputs(TRUE)

\* Only the tuples the batch splitter builds enter the first stage.
InitBatch == PipeStart /\ env \in BatchInputs

\* LlamaEmbeddingPipe.forward(args)
EmbeddingForward ==
    /\ pc = "embedding"
    /\ \E trainable \in BOOLEAN :
        LET d == parse_args(env)
            r == EmbeddingResolve(config_alibi, device, d)
            out == IF d.ok THEN EmbeddingBody(config_alibi, device, r, trainable, nextObj)
                   ELSE Raised
        IN  /\ decoded' = d
            /\ resolved' = IF d.ok THEN r ELSE Raised
            /\ prevSent' = sent
            /\ IF out.ok
               THEN /\ sent' = out
                    /\ env' = return_args(out.hidden_states, out.attention_mask,
                                          out.attn_mask_startend_row_indices,
                                          out.position_ids, out.alibi, nextObj)
                    /\ envLog' = Append(envLog, env')
                    /\ pc' = "decoder"
               ELSE /\ pc' = "error"
                    /\ UNCHANGED <<sent, env, envLog>>
    /\ lastLayer' = "embedding"
    /\ nextObj' = nextObj + 8
    /\ UNCHANGED <<config_alibi, device, layer, call, codecVars, harnessVars>>

\* LlamaDecoderLayerPipe.forward(args); super().forward is the layer's math,
\* it yields a new hidden_states and touches no other slot.
DecoderForward ==
    /\ pc = "decoder"
    /\ \E trainable \in BOOLEAN :
        LET d == parse_args(env)
            r == DecoderResolve(config_alibi, device, d)
            hidden_states == Tensor(1000 + r.hidden_states.val, "float",
                                    r.hidden_states.stop_gradient /\ ~trainable,
                                    nextObj + 5)
        IN  /\ decoded' = d
            /\ prevSent' = sent
            /\ IF d.ok
               THEN /\ resolved' = r
                    /\ \E enable_recompute \in BOOLEAN, layerwise_recompute \in BOOLEAN,
                          recompute_granularity \in Granularities, any_skip \in BOOLEAN,
                          recompute_use_reentrant \in BOOLEAN :
                        call' = DecoderCall(r, enable_recompute, layerwise_recompute,
                                            recompute_granularity, any_skip,
                                            recompute_use_reentrant)
                    /\ sent' = [r EXCEPT !.hidden_states = hidden_states]
                    /\ env' = return_args(hidden_states, r.attention_mask,
                                          r.attn_mask_startend_row_indices,
                                          r.position_ids, r.alibi, nextObj)
                    /\ envLog' = Append(envLog, env')
                    /\ layer' = layer + 1
                    /\ pc' = IF layer + 1 < num_hidden_layers THEN "decoder" ELSE "norm"
               ELSE /\ resolved' = Raised
                    /\ pc' = "error"
                    /\ UNCHANGED <<call, sent, env, layer, envLog>>
    /\ lastLayer' = "decoder"
    /\ nextObj' = nextObj + 8
    /\ UNCHANGED <<config_alibi, device, codecVars, harnessVars>>

\* LlamaRMSNormPipe.forward(args): the envelope is decoded, only
\* hidden_states goes on.
NormForward ==
    /\ pc = "norm"
    /\ LET d == parse_args(env)
       IN  /\ decoded' = d
           /\ resolved' = d
           /\ IF d.ok
              THEN /\ env' = Bare(Tensor(1000 + d.hidden_states.val, "float",
                                         d.hidden_states.stop_gradient, nextObj + 5))
                   /\ pc' = "done"
              ELSE /\ pc' = "error"
                   /\ UNCHANGED env
    /\ prevSent' = sent
    /\ lastLayer' = "norm"
    /\ nextObj' = nextObj + 8
    /\ UNCHANGED <<config_alibi, device, layer, sent, call, envLog, codecVars, harnessVars>>

Next == EmbeddingForward \/ DecoderForward \/ NormForward

Spec == Init /\ [][Next]_vars

SpecBatch == InitBatch /\ [][Next]_vars

\* --------------------------------------------------- the recompute policy
\* The refined-recompute operation names of a skip map.
OpNames == {"flash_attn", "mlp_row_ln"}

\* The skip maps a layer can be built with: operation name -> bool.
SkipMaps ==
    {<<>>} \cup {m \in [OpNames -> BOOLEAN] : m["mlp_row_ln"] => m["flash_attn"]}

\* all(...) where the code has any(...).
AllValues(skip_recompute_ops) ==
    \A k \in DOMAIN skip_recompute_ops : skip_recompute_ops[k]

\* any(self.skip_recompute_ops.values())
AnyValue(skip_recompute_ops) ==
    \E k \in DOMAIN skip_recompute_ops : skip_recompute_ops[k]

\* config.no_recompute_layers: None, or a list of layer indices.
NoRecomputeConfigs ==
    {[is_none |-> TRUE, layers |-> {}]}
    \cup {[is_none |-> FALSE, layers |-> S] : S \in SUBSET (0..(MaxLayers - 1))}

\* self.no_recompute_layers
no_recompute_layers(c) == IF ~c.is_none THEN c.layers ELSE {}

\* The flag is set for the excluded layers.
layerwise_recompute_inverted(i, c) == i \in no_recompute_layers(c)

\* layerwise_recompute=i not in self.no_recompute_layers
layerwise_recompute(i, c) == i \notin no_recompute_layers(c)

\* The resolved slots a decoder forward can run on: hidden_states with or
\* without gradient, every auxiliary slot present or not.
ResolvedSlots ==
    {Slots(Tensor(1, "float", sg, 1), a, r, p, b) :
        sg \in BOOLEAN,
        a \in {None, Input(2, "bool", TRUE)}, r \in {None, Input(3, "int32", TRUE)},
        p \in {None, Input(4, "int64", TRUE)}, b \in {None, Input(5, "float", TRUE)}}

InitRecompute ==
    /\ UtilIdle
    /\ CodecIdle
    /\ PipeIdle
    /\ PairIdle
    /\ SplitIdle
    /\ BuildIdle
    /\ rpc = "start"
    /\ rN \in 1..MaxLayers
    /\ rNoRecompute \in NoRecomputeConfigs
    /\ rEnable \in BOOLEAN
    /\ rGranularity \in Granularities
    /\ rUseReentrant \in BOOLEAN
    /\ rLayers = <<>> /\ rIdx = 0 /\ rSlots = Raised /\ rCall = NoCall

\* The constructor's decoder descriptors (lines 415-424); the skip map of a
\* layer is what get_skip_recompute_ops(config, i) returns.
BuildDecoders ==
    /\ rpc = "start"
    /\ \E ops \in [1..rN -> SkipMaps] :
           rLayers' = [k \in 1..rN |->
                          [layerwise_recompute |-> layerwise_recompute(k - 1, rNoRecompute),
                           skip_recompute_ops |-> ops[k]]]
    /\ rpc' = "built"
    /\ UNCHANGED <<rN, rNoRecompute, rEnable, rGranularity, rUseReentrant,
                   rIdx, rSlots, rCall, utilVars, codecVars, pipeVars, pairVars, splitVars, buildVars>>

\* One forward of decoder layer i on resolved slots r (lines 282-316).
RecomputeForward ==
    /\ rpc = "built"
    /\ \E i \in 0..(rN - 1), r \in ResolvedSlots :
           /\ rIdx' = i
           /\ rSlots' = r
           /\ rCall' = DecoderCall(r, rEnable, rLayers[i + 1].layerwise_recompute,
                                   rGranularity,
                                   AnyValue(rLayers[i + 1].skip_recompute_ops),
                                   rUseReentrant)
    /\ rpc' = "done"
    /\ UNCHANGED <<rN, rNoRecompute, rEnable, rGranularity, rUseReentrant,
                   rLayers, utilVars, codecVars, pipeVars, pairVars, splitVars, buildVars>>

NextRecompute == BuildDecoders \/ RecomputeForward

SpecRecompute == InitRecompute /\ [][NextRecompute]_vars

\* ------------------------------------------------------ the batch splitter
first_stage_keys ==
    <<"input_ids", "attention_mask", "attn_mask_startend_row_indices", "position_ids">>
last_stage_keys == <<"labels">>

\* The field names an example can carry.
FieldNames ==
    {"input_ids", "attention_mask", "attn_mask_startend_row_indices",
     "position_ids", "labels"}

\* What a place of the result holds: None, one example's value of a field,
\* or the list of the examples' values of a field.
NoneField == [kind |-> "none", v |-> <<>>]
Value(x) == [kind |-> "value", v |-> <<x>>]
List(s) == [kind |-> "list", v |-> s]

FieldIndex(f) ==
    CASE f = "input_ids" -> 1
      [] f = "attention_mask" -> 2
      [] f = "attn_mask_startend_row_indices" -> 3
      [] f = "position_ids" -> 4
      [] f = "labels" -> 5

\* Example j carrying the fields S: every field has a value of its own.
Example(j, S) == [f \in S |-> Value(10 * j + FieldIndex(f))]

RECURSIVE Batches(_)
Batches(n) ==
    IF n = 0 THEN {<<>>}
    ELSE {Append(b, Example(n, S)) : b \in Batches(n - 1), S \in SUBSET FieldNames}

\* A single mapping (dict or OrderedDict) or a list of 1..MaxBatch mappings.
SplitInputs ==
    {[type |-> t, data |-> Example(1, S)] :
        t \in {"dict", "OrderedDict"}, S \in SUBSET FieldNames}
    \cup {[type |-> "list", data |-> b] : b \in UNION {Batches(n) : n \in 1..MaxBatch}}

Range(seq) == {seq[i] : i \in DOMAIN seq}

\* The mapping after its keys K were popped.
Without(mapping, K) == [k \in DOMAIN mapping \ K |-> mapping[k]]

\* A one-element result stays a tuple.
get_expected_keys_no_unwrap(inputs, keys) ==
    Tuple([k \in 1..Len(keys) |->
              IF keys[k] \in DOMAIN inputs THEN inputs[keys[k]] ELSE NoneField])

\* get_expected_keys (lines 366-370)
get_expected_keys(inputs, keys) ==
    LET ret == [k \in 1..Len(keys) |->
                   IF keys[k] \in DOMAIN inputs THEN inputs[keys[k]] ELSE NoneField]
    IN  IF Len(ret) = 1 THEN Bare(ret[1]) ELSE Tuple(ret)

\* The examples' values of a field are listed last example first.
TransposeReversed(inputs) ==
    [key \in DOMAIN inputs[1] |->
        List([j \in 1..Len(inputs) |-> inputs[Len(inputs) + 1 - j][key].v[1]])]

\* inputs_batch = {key: [data.pop(key) for data in inputs] for key in keys}
Transpose(inputs) ==
    [key \in DOMAIN inputs[1] |->
        List([j \in 1..Len(inputs) |-> inputs[j][key].v[1]])]

\* data.pop(key) raises KeyError: an example lacks a key of inputs[0].
PopRaises(inputs) ==
    \E key \in DOMAIN inputs[1], j \in 1..Len(inputs) : key \notin DOMAIN inputs[j]

SplitRaised == [ok |-> FALSE, first |-> Tuple(<<>>), last |-> Tuple(<<>>)]

\* What the two extractions return from one mapping.
Extract(mapping) ==
    [ok |-> TRUE,
     first |-> get_expected_keys(mapping, first_stage_keys),
     last |-> get_expected_keys(Without(mapping, Range(first_stage_keys)), last_stage_keys)]

\* _prepare_pipeline_inputs_func: its return value.
prepare_pipeline_inputs_func(inputs) ==
    IF inputs.type \in {"dict", "OrderedDict"} THEN Extract(inputs.data)
    ELSE IF PopRaises(inputs.data) THEN SplitRaised
    ELSE Extract(Transpose(inputs.data))

\* The examples as a KeyError leaves them.  The keys are popped in the
\* order of inputs[0]: some of the keys every example has are already popped
\* everywhere, and the failing key from the examples before the one lacking it.
PartialPops(inputs) ==
    LET keys == DOMAIN inputs[1]
        Complete(k) == \A j \in 1..Len(inputs) : k \in DOMAIN inputs[j]
        FirstMissing(k) == CHOOSE j \in 1..Len(inputs) :
                               /\ k \notin DOMAIN inputs[j]
                               /\ \A i \in 1..(j - 1) : k \in DOMAIN inputs[i]
    IN  {[j \in 1..Len(inputs) |->
             Without(inputs[j], done \cup (IF j < FirstMissing(kf) THEN {kf} ELSE {}))] :
            kf \in {k \in keys : ~Complete(k)},
            done \in SUBSET {k \in keys : Complete(k)}}

InitSplit ==
    /\ UtilIdle
    /\ CodecIdle
    /\ PipeIdle
    /\ PairIdle
    /\ RecIdle
    /\ BuildIdle
    /\ spc = "start"
    /\ sInputs \in SplitInputs
    /\ sAfter = sInputs.data
    /\ sOut = SplitRaised

\* One call of _prepare_pipeline_inputs_func (lines 360-383).
PrepareInputs ==
    /\ spc = "start"
    /\ sOut' = prepare_pipeline_inputs_func(sInputs)
    /\ IF sInputs.type \in {"dict", "OrderedDict"} THEN
           sAfter' = Without(sInputs.data, Range(first_stage_keys) \cup Range(last_stage_keys))
       ELSE IF PopRaises(sInputs.data) THEN
           sAfter' \in PartialPops(sInputs.data)
       ELSE
           sAfter' = [j \in 1..Len(sInputs.data) |->
                         Without(sInputs.data[j], DOMAIN sInputs.data[1])]
    /\ spc' = "done"
    /\ UNCHANGED <<sInputs, utilVars, codecVars, pipeVars, pairVars, recVars, buildVars>>

NextSplit == PrepareInputs

SpecSplit == InitSplit /\ [][NextSplit]_vars

\* --------------------------------------------------------- the constructor
\* LayerDesc(layer, ...) added under a name prefix; index is i of
\* f"llama.layers.{i}" and -1 for the other prefixes.
LayerDesc(layer_func, name_prefix, index, flag, ops) ==
    [desc |-> "LayerDesc", layer |-> layer_func, name_prefix |-> name_prefix,
     index |-> index, key |-> "", shared_weight_attr |-> "", transpose_y |-> FALSE,
     layerwise_recompute |-> flag, skip_recompute_ops |-> ops]

\* SharedLayerDesc(key, layer, shared_weight_attr=..., ...)
SharedLayerDesc(key, layer_func, shared_weight_attr, name_prefix, transpose_y) ==
    [desc |-> "SharedLayerDesc", layer |-> layer_func, name_prefix |-> name_prefix,
     index |-> -1, key |-> key, shared_weight_attr |-> shared_weight_attr,
     transpose_y |-> transpose_y,
     layerwise_recompute |-> FALSE, skip_recompute_ops |-> <<>>]

\* The first layer (lines 405-413).
EmbeddingDesc(tie_word_embeddings) ==
    IF tie_word_embeddings
    THEN SharedLayerDesc("llama_shared_weight", "LlamaEmbeddingPipe", "embedding_weight", "llama", FALSE)
    ELSE LayerDesc("LlamaEmbeddingPipe", "llama", -1, FALSE, <<>>)

\* The head is put in a shared-weight group of its own.
HeadDescOwnGroup(tie_word_embeddings) ==
    IF tie_word_embeddings
    THEN SharedLayerDesc("llama_lm_head_weight", "LlamaLMHeadPipe", "embedding_weight", "lm_head", TRUE)
    ELSE LayerDesc("LlamaLMHeadPipe", "lm_head", -1, FALSE, <<>>)

\* The last layer (lines 426-438).
HeadDesc(tie_word_embeddings) ==
    IF tie_word_embeddings
    THEN SharedLayerDesc("llama_shared_weight", "LlamaLMHeadPipe", "embedding_weight", "lm_head", TRUE)
    ELSE LayerDesc("LlamaLMHeadPipe", "lm_head", -1, FALSE, <<>>)

\* The decoder layers 0..n-1 in index order (lines 415-424); ops[i + 1] is
\* what get_skip_recompute_ops(config, i) returns.
DecoderDescs(n, c, ops) ==
    [k \in 1..n |-> LayerDesc("LlamaDecoderLayerPipe", "llama.layers", k - 1,
                              layerwise_recompute(k - 1, c), ops[k])]

\* The remainder is taken of the stage count by the layer count.
seg_method_modulo_swapped(num_layers, pipe) ==
    IF pipe % num_layers # 0 THEN "uniform" ELSE "layer:LlamaDecoderLayer"

\* The attributes a layer class offers as shared_weight_attr: the
\* embedding_weight properties (lines 136-138 and 333-335).
LayerAttrs(layer_func) ==
    IF layer_func \in {"LlamaEmbeddingPipe", "LlamaLMHeadPipe"}
    THEN {"embedding_weight"} ELSE {}

\* The places of the catalog that hold a SharedLayerDesc.
SharedIndices(layers) ==
    {k \in 1..Len(layers) : layers[k].desc = "SharedLayerDesc"}

\* The shared-weight groups of a catalog: one tensor of record per key.
SharedGroups(layers) == {layers[k].key : k \in SharedIndices(layers)}

\* The shared tensor as layer d sees it through its binding.
ReadShared(shared, d) == shared[d.key]

\* seg_method (lines 442-444)
seg_method(num_layers, pipe) ==
    IF num_layers % pipe # 0 THEN "uniform" ELSE "layer:LlamaDecoderLayer"

\* get_loss_fn (lines 465-469)
get_loss_fn(has_dpo_config) ==
    IF has_dpo_config THEN "DPOCriterion" ELSE "LlamaPretrainingCriterion"

Max(a, b) == IF a >= b THEN a ELSE b

\* The configurations a model is constructed from; the communicate group
\* reports the size and rank of the model-parallel group and the pipe degree.
Configs ==
    {[num_hidden_layers |-> n, pipe |-> k, virtual_pp_degree |-> v,
      tie_word_embeddings |-> tie, has_dpo_config |-> dpo,
      no_recompute_layers |-> c,
      model_parallel_world_size |-> mp[1], model_parallel_rank |-> mp[2],
      tensor_parallel_degree |-> 1, tensor_parallel_rank |-> 0] :
        n \in 1..MaxLayers, k \in 1..MaxStages, v \in {1, 2},
        tie \in BOOLEAN, dpo \in BOOLEAN, c \in NoRecomputeConfigs,
        mp \in {<<0, -1>>, <<1, 0>>, <<2, 1>>}}

InitBuild ==
    /\ UtilIdle
    /\ CodecIdle
    /\ PipeIdle
    /\ PairIdle
    /\ RecIdle
    /\ SplitIdle
    /\ bpc = "start"
    /\ bConfig \in Configs
    /\ bLayers = <<>>
    /\ bArgs = NoArgs
    /\ bShared = <<>>
    /\ bWrite = NoWrite

\* LlamaForCausalLMPipe.__init__ (lines 385-459).
Construct ==
    /\ bpc = "start"
    /\ bConfig' = [bConfig EXCEPT
           !.tensor_parallel_degree = Max(bConfig.model_parallel_world_size, 1),
           !.tensor_parallel_rank = Max(bConfig.model_parallel_rank, 0)]
    /\ \E ops \in [1..bConfig.num_hidden_layers -> SkipMaps] :
           LET layers == <<EmbeddingDesc(bConfig.tie_word_embeddings)>>
                         \o DecoderDescs(bConfig.num_hidden_layers,
                                         bConfig.no_recompute_layers, ops)
                         \o <<LayerDesc("LlamaRMSNormPipe", "llama", -1, FALSE, <<>>),
                              HeadDesc(bConfig.tie_word_embeddings)>>
           IN  /\ bLayers' = layers
               /\ bShared' = [g \in SharedGroups(layers) |-> 0]
    /\ bWrite' = NoWrite
    /\ bArgs' = [seg_method |-> seg_method(bConfig.num_hidden_layers, bConfig.pipe),
                 loss_fn |-> get_loss_fn(bConfig.has_dpo_config),
                 recompute_interval |-> 0,
                 num_virtual_pipeline_stages |-> bConfig.virtual_pp_degree]
    /\ bpc' = "built"
    /\ UNCHANGED <<utilVars, codecVars, pipeVars, pairVars, recVars, splitVars>>

\* A write to a shared tensor through the binding of one shared layer.
WriteShared ==
    /\ bpc = "built"
    /\ \E k \in SharedIndices(bLayers), v \in {1, 2} :
           /\ bShared' = [bShared EXCEPT ![bLayers[k].key] = v]
           /\ bWrite' = [via |-> k, value |-> v]
    /\ UNCHANGED <<bpc, bConfig, bLayers, bArgs,
                   utilVars, codecVars, pipeVars, pairVars, recVars, splitVars>>

NextBuild == Construct \/ WriteShared

SpecBuild == InitBuild /\ [][NextBuild]_vars

\* ------------------------------------------------------------ the timer
\* Everything but the utilities is idle.
LlamaIdle == CodecIdle /\ PipeIdle /\ PairIdle /\ RecIdle /\ SplitIdle /\ BuildIdle

TimerOthersIdle == LlamaIdle /\ PoolIdle /\ DumpIdle /\ LogIdle

InitTimer ==
    /\ TimerOthersIdle
    /\ now \in 0..1
    /\ timer = NewTimer(now)
    /\ tLast = NoTimerCall

\* The clock advances.
Tick ==
    /\ now < MaxTime
    /\ now' = now + 1
    /\ UNCHANGED <<timer, tLast, timerOthers>>

\* One call of a method of the timer; an AssertionError leaves the caller.
TimerCall(op, reset_flag, out) ==
    /\ timer' = out.timer
    /\ tLast' = [op |-> op, reset_flag |-> reset_flag, at |-> now,
                 raised |-> out.raised, ret |-> out.ret, before |-> timer]
    /\ UNCHANGED <<now, timerOthers>>

Start == TimerCall("start", FALSE, start(timer, now))
Stop == TimerCall("stop", FALSE, stop(timer, now))
Reset == TimerCall("reset", FALSE, reset(timer))
Elapsed == \E reset_flag \in BOOLEAN :
               TimerCall("elapsed", reset_flag, elapsed(timer, reset_flag, now))
RuntimeLog == TimerCall("log", TRUE, RuntimeTimer_log(timer, now))

NextTimer == Tick \/ Start \/ Stop \/ Reset \/ Elapsed \/ RuntimeLog

SpecTimer == InitTimer /\ [][NextTimer]_vars

\* ----------------------------------------------------------- the pooling
PoolOthersIdle == LlamaIdle /\ TimerIdle /\ DumpIdle /\ LogIdle

\* One sequence of 1..MaxSeq tokens, at least one of them real; a tokenizer
\* whose padding side is neither left nor right has padded nothing.
PoolInputs ==
    UNION {{[method |-> m, padding_side |-> side, mask |-> AttentionMask(len, side, n)] :
               m \in PoolingMethods, side \in PaddingSides, n \in 1..len} :
           len \in 1..MaxSeq}

InitPool ==
    /\ PoolOthersIdle
    /\ poolIn \in {i \in PoolInputs :
                       i.padding_side \in {"left", "right"} \/ MaskSum(i.mask) = Len(i.mask)}
    /\ poolPath = "start"
    /\ poolOut = Selected({})

\* The pooling on the training path: encode -> sentence_embedding.
SentenceEmbedding ==
    /\ poolPath = "start"
    /\ poolOut' = sentence_embedding(poolIn.method, poolIn.mask)
    /\ poolPath' = "sentence_embedding"
    /\ UNCHANGED <<poolIn, poolOthers>>

\* The pooling on the inference path: encode_sentences.
EncodeSentences ==
    /\ poolPath = "start"
    /\ poolOut' = encode_sentences(poolIn.method, poolIn.padding_side, poolIn.mask)
    /\ poolPath' = "encode_sentences"
    /\ UNCHANGED <<poolIn, poolOthers>>

NextPool == SentenceEmbedding \/ EncodeSentences

SpecPool == InitPool /\ [][NextPool]_vars

\* ---------------------------------------------------- the metrics dumper
DumpOthersIdle == LlamaIdle /\ TimerIdle /\ PoolIdle /\ LogIdle

\* MetricsDumper.__init__ has run: the queue is empty, the writer process
\* is started, the handlers of SIGINT and SIGTERM and atexit's close are set.
InitDump ==
    /\ DumpOthersIdle
    /\ dMain = "running" /\ dWriter = "get" /\ dItem = NoneItem /\ dWaited = FALSE
    /\ dQueue = <<>> /\ dFile = <<>> /\ dAppended = <<>>
    /\ dClose = NoClose /\ dSignal = NoSignal

\* append(data): data is a record json.dumps can or cannot serialise.
DumpAppend ==
    /\ dMain \in {"running", "closed"}
    /\ Len(dAppended) < MaxRecords
    /\ \E serialisable \in BOOLEAN :
           LET data == [id |-> Len(dAppended) + 1, serialisable |-> serialisable]
           IN  /\ dQueue' = Append(dQueue, data)
               /\ dAppended' = Append(dAppended, data)
    /\ UNCHANGED <<dMain, dWriter, dItem, dWaited, dFile, dClose, dSignal, dumpOthers>>

\* close() called by the program, first half: queue.put(None), then
\* process.join() blocks.  The program closes a dumper once; atexit's close
\* follows in any case.
DumpClose ==
    /\ dMain = "running"
    /\ dQueue' = Append(dQueue, NoneItem)
    /\ dClose' = [state |-> "called", before |-> dAppended]
    /\ dMain' = "joining"
    /\ UNCHANGED <<dWriter, dItem, dWaited, dFile, dAppended, dSignal, dumpOthers>>

\* close(), second half: process.join() returns once the writer has exited.
DumpJoin ==
    /\ dMain = "joining"
    /\ dWriter = "exited"
    /\ dClose' = [dClose EXCEPT !.state = "returned"]
    /\ dMain' = "closed"
    /\ UNCHANGED <<dWriter, dItem, dWaited, dQueue, dFile, dAppended, dSignal, dumpOthers>>

\* The interpreter exits, normally or by the exception that left the
\* signal handler: atexit runs close().
DumpExit ==
    /\ dMain \in {"running", "closed", "raised"}
    /\ dQueue' = Append(dQueue, NoneItem)
    /\ dClose' = [state |-> "called", before |-> dAppended]
    /\ dMain' = "exit_joining"
    /\ UNCHANGED <<dWriter, dItem, dWaited, dFile, dAppended, dSignal, dumpOthers>>

DumpExitJoin ==
    /\ dMain = "exit_joining"
    /\ dWriter = "exited"
    /\ dClose' = [dClose EXCEPT !.state = "returned"]
    /\ dMain' = "exited"
    /\ UNCHANGED <<dWriter, dItem, dWaited, dQueue, dFile, dAppended, dSignal, dumpOthers>>

\* SIGINT or SIGTERM reaches the main process: _signal_handler runs.  Its
\* first statement reads self.shutdown_event, which no code sets: the
\* AttributeError leaves the handler before close() and reaches whatever
\* the main process was executing.
DumpSignal ==
    /\ dMain \in {"running", "joining", "closed"}
    /\ dSignal.sig = "none"
    /\ \E sig \in {"SIGINT", "SIGTERM"} :
           dSignal' = [sig |-> sig, handler_raised |-> TRUE,
                       stop_signalled |-> FALSE, closed |-> FALSE]
    /\ dMain' = "raised"
    /\ UNCHANGED <<dWriter, dItem, dWaited, dQueue, dFile, dAppended, dClose, dumpOthers>>

\* _write_json: queue.get returns an item; None ends the loop.
WriterGet ==
    /\ dWriter = "get"
    /\ dQueue # <<>>
    /\ dQueue' = Tail(dQueue)
    /\ IF Head(dQueue) = NoneItem
       THEN dWriter' = "exited" /\ UNCHANGED dItem
       ELSE dWriter' = "write" /\ dItem' = Head(dQueue)
    /\ UNCHANGED <<dMain, dWaited, dFile, dAppended, dClose, dSignal, dumpOthers>>

\* _write_json: queue.get times out on an empty queue; the except clause
\* continues the loop.
WriterTimeout ==
    /\ dWriter = "get"
    /\ dQueue = <<>>
    /\ dWaited' = TRUE
    /\ UNCHANGED <<dMain, dWriter, dItem, dQueue, dFile, dAppended, dClose, dSignal, dumpOthers>>

\* _write_json: the record is written as one line; if json.dumps raises,
\* the except clause continues the loop and the record is gone.
WriterWrite ==
    /\ dWriter = "write"
    /\ dFile' = IF dItem.serialisable THEN Append(dFile, dItem.id) ELSE dFile
    /\ dWriter' = "get"
    /\ UNCHANGED <<dMain, dItem, dWaited, dQueue, dAppended, dClose, dSignal, dumpOthers>>

NextDump ==
    \/ DumpAppend \/ DumpClose \/ DumpJoin \/ DumpExit \/ DumpExitJoin \/ DumpSignal
    \/ WriterGet \/ WriterTimeout \/ WriterWrite

SpecDump == InitDump /\ [][NextDump]_vars

\* ------------------------------------------------- Logger.warning_once
WarnOthersIdle == LlamaIdle /\ TimerIdle /\ PoolIdle /\ DumpIdle /\ ProcIdle

\* log_config: the level of each name.
log_config ==
    [DEBUG |-> 10, INFO |-> 20, TRAIN |-> 21, EVAL |-> 22, WARNING |-> 30,
     ERROR |-> 40, CRITICAL |-> 50]

\* What set_level can be handed: the names of log_config and one other.
LevelNames == DOMAIN log_config \cup {"VERBOSE"}

Messages == {"a", "b"}

\* The calls of warning_once: the message passed positionally, and the same
\* message passed by keyword (self.warning is partial(__call__, level), so
\* warning_once(msg="a") reaches __call__(level, msg="a")).
WarnCalls ==
    {[args |-> <<m>>, kwargs |-> <<>>] : m \in Messages}
        \cup {[args |-> <<>>, kwargs |-> << <<"msg", m>> >>] : m \in Messages}

\* The message of a call.
MessageOf(c) == IF c.args # <<>> THEN c.args[1] ELSE c.kwargs[1][2]

\* Logger.__call__(log_level, msg): nothing when the logger is disabled;
\* self.logger.log emits when log_level reaches the logger's level.
Logger_call(enable, level, log_level) == enable /\ log_level >= log_config[level]

make_key_by_message(args, kwargs) ==
    [args |-> <<MessageOf([args |-> args, kwargs |-> kwargs])>>, kwargs |-> <<>>]

\* The key lru_cache files a call under: the positional arguments, then the
\* keyword arguments.
make_key(args, kwargs) == [args |-> args, kwargs |-> kwargs]

\* Logger.__init__ has run: enabled, level DEBUG, and the cache of
\* warning_once is empty.
InitWarn ==
    /\ WarnOthersIdle
    /\ wEnable = TRUE /\ wLevel = "DEBUG" /\ wCache = {} /\ wCalls = <<>>

\* warning_once(*args, **kwargs): a cached key returns at once; otherwise
\* self.warning runs and the key is cached, whatever self.warning did.
WarningOnce ==
    /\ Len(wCalls) < MaxCalls
    /\ \E c \in WarnCalls :
           LET key == make_key(c.args, c.kwargs)
               enabled == Logger_call(wEnable, wLevel, log_config["WARNING"])
           IN  /\ wCache' = wCache \cup {key}
               /\ wCalls' = Append(wCalls,
                      [args |-> c.args, kwargs |-> c.kwargs, msg |-> MessageOf(c),
                       enabled |-> enabled,
                       emitted |-> key \notin wCache /\ enabled])
    /\ UNCHANGED <<wEnable, wLevel, warnOthers>>

Disable ==
    /\ wEnable' = FALSE
    /\ UNCHANGED <<wLevel, wCache, wCalls, warnOthers>>

Enable ==
    /\ wEnable' = TRUE
    /\ UNCHANGED <<wLevel, wCache, wCalls, warnOthers>>

\* set_level(log_level): the assertion fails on a name log_config lacks.
SetLevel ==
    /\ \E log_level \in LevelNames :
           wLevel' = IF log_level \in DOMAIN log_config THEN log_level ELSE wLevel
    /\ UNCHANGED <<wEnable, wCache, wCalls, warnOthers>>

NextWarn == WarningOnce \/ Disable \/ Enable \/ SetLevel

SpecWarn == InitWarn /\ [][NextWarn]_vars

\* ------------------------------- Logger.processing and use_terminator
ProcOthersIdle == LlamaIdle /\ TimerIdle /\ PoolIdle /\ DumpIdle /\ WarnIdle

\* The terminators the main thread hands to use_terminator.
Terminators == {"", "\r"}

\* The pcs at which a printer thread is outside use_terminator.
PrinterOutside == {"unstarted", "loop", "enter", "sleep", "terminated"}

\* A Logger, enabled, its handler's terminator the default; the main thread
\* is about to enter `with logger.processing(msg)`.
InitProcessing ==
    /\ ProcOthersIdle
    /\ gTerm = DefaultTerminator /\ gEnd = FALSE /\ gBlock = "before"
    /\ gPrinter = "unstarted" /\ gPOld = DefaultTerminator
    /\ gMainCtx = "out" /\ gMOld = DefaultTerminator /\ gMArg = DefaultTerminator
    /\ gLast = NoEmission

\* processing.__enter__: end = False, the printer thread is started, yield.
ProcessingEnter ==
    /\ gBlock = "before" /\ gMainCtx = "out"
    /\ gEnd' = FALSE /\ gPrinter' = "loop" /\ gBlock' = "inside"
    /\ UNCHANGED <<gTerm, gPOld, gMainCtx, gMOld, gMArg, gLast, procOthers>>

\* The with-block ends normally: the generator resumes after yield, end = True.
ProcessingExit ==
    /\ gBlock = "inside" /\ gMainCtx = "out"
    /\ gEnd' = TRUE /\ gBlock' = "left"
    /\ UNCHANGED <<gTerm, gPrinter, gPOld, gMainCtx, gMOld, gMArg, gLast, procOthers>>

\* The with-block raises: the exception is thrown into the generator at
\* yield, which has no try/finally, and leaves it there.
ProcessingRaise ==
    /\ gBlock = "inside" /\ gMainCtx = "out"
    /\ gBlock' = "raised"
    /\ UNCHANGED <<gTerm, gEnd, gPrinter, gPOld, gMainCtx, gMOld, gMArg, gLast, procOthers>>

\* The main thread logs a message: the handler writes it with the
\* terminator it holds at that moment.
MainInfo ==
    /\ gMainCtx \in {"out", "in"}
    /\ gLast' = [thread |-> "main", inside |-> gMainCtx = "in", terminator |-> gTerm]
    /\ UNCHANGED <<gTerm, gEnd, gBlock, gPrinter, gPOld, gMainCtx, gMOld, gMArg, procOthers>>

\* use_terminator in the main thread: old_terminator = self.handler.terminator
MainRead ==
    /\ gMainCtx = "out"
    /\ \E terminator \in Terminators : gMArg' = terminator
    /\ gMOld' = gTerm /\ gMainCtx' = "set"
    /\ UNCHANGED <<gTerm, gEnd, gBlock, gPrinter, gPOld, gLast, procOthers>>

\* self.handler.terminator = terminator; yield
MainSet ==
    /\ gMainCtx = "set"
    /\ gTerm' = gMArg /\ gMainCtx' = "in"
    /\ UNCHANGED <<gEnd, gBlock, gPrinter, gPOld, gMOld, gMArg, gLast, procOthers>>

\* The body ends normally: self.handler.terminator = old_terminator
MainRestore ==
    /\ gMainCtx = "in"
    /\ gTerm' = gMOld /\ gMainCtx' = "out"
    /\ UNCHANGED <<gEnd, gBlock, gPrinter, gPOld, gMOld, gMArg, gLast, procOthers>>

\* The body raises: the generator is left at yield, nothing is restored.
MainCtxRaise ==
    /\ gMainCtx = "in"
    /\ gMainCtx' = "out"
    /\ UNCHANGED <<gTerm, gEnd, gBlock, gPrinter, gPOld, gMOld, gMArg, gLast, procOthers>>

\* _printer: while not end
PrinterLoop ==
    /\ gPrinter = "loop"
    /\ gPrinter' = IF gEnd THEN "terminated" ELSE "enter"
    /\ UNCHANGED <<gTerm, gEnd, gBlock, gPOld, gMainCtx, gMOld, gMArg, gLast, procOthers>>

\* with self.use_terminator("\r"): old_terminator = self.handler.terminator
PrinterRead ==
    /\ gPrinter = "enter"
    /\ gPOld' = gTerm /\ gPrinter' = "set"
    /\ UNCHANGED <<gTerm, gEnd, gBlock, gMainCtx, gMOld, gMArg, gLast, procOthers>>

\* self.handler.terminator = "\r"; yield
PrinterSet ==
    /\ gPrinter = "set"
    /\ gTerm' = "\r" /\ gPrinter' = "info"
    /\ UNCHANGED <<gEnd, gBlock, gPOld, gMainCtx, gMOld, gMArg, gLast, procOthers>>

\* self.info("{}: {}".format(msg, flag))
PrinterInfo ==
    /\ gPrinter = "info"
    /\ gLast' = [thread |-> "printer", inside |-> TRUE, terminator |-> gTerm]
    /\ gPrinter' = "restore"
    /\ UNCHANGED <<gTerm, gEnd, gBlock, gPOld, gMainCtx, gMOld, gMArg, procOthers>>

\* self.handler.terminator = old_terminator
PrinterRestore ==
    /\ gPrinter = "restore"
    /\ gTerm' = gPOld /\ gPrinter' = "sleep"
    /\ UNCHANGED <<gEnd, gBlock, gPOld, gMainCtx, gMOld, gMArg, gLast, procOthers>>

\* time.sleep(interval); index += 1
PrinterSleep ==
    /\ gPrinter = "sleep"
    /\ gPrinter' = "loop"
    /\ UNCHANGED <<gTerm, gEnd, gBlock, gPOld, gMainCtx, gMOld, gMArg, gLast, procOthers>>

NextProcessing ==
    \/ ProcessingEnter \/ ProcessingExit \/ ProcessingRaise
    \/ MainInfo \/ MainRead \/ MainSet \/ MainRestore \/ MainCtxRaise
    \/ PrinterLoop \/ PrinterRead \/ PrinterSet \/ PrinterInfo
    \/ PrinterRestore \/ PrinterSleep

SpecProcessing == InitProcessing /\ [][NextProcessing]_vars

\* ------------------------------------------------- the resolver, twice
\* Envelopes of arity 1..5 whose items have any width; item k is object k.
RECURSIVE WideItems(_)
WideItems(n) ==
    IF n = 1 THEN {<<Input(1, "int64", TRUE)>>}
    ELSE {Append(s, t) : s \in WideItems(n - 1),
                         t \in {None} \cup {Input(n, d, TRUE) : d \in DTypes}}

PairInputs ==
    {Bare(Input(1, "int64", TRUE))} \cup UNION {{Tuple(s) : s \in WideItems(n)} : n \in 2..5}

\* The same envelope with other contents: item k keeps its place, its
\* presence and its width; its value is shifted and its gradient flag is sg.
OtherContents(e, shift, sg) ==
    [e EXCEPT !.items = [k \in 1..Len(e.items) |->
        IF e.items[k] = None \/ k = 1 THEN e.items[k]
        ELSE [e.items[k] EXCEPT !.val = @ + shift, !.stop_gradient = sg]]]

InitPair ==
    /\ UtilIdle
    /\ CodecIdle
    /\ PipeIdle
    /\ hpc = "start"
    /\ hAlibi \in BOOLEAN
    /\ hDevice \in Devices
    /\ hEnvA \in PairInputs
    /\ \E shift \in {10, 20}, sg \in BOOLEAN : hEnvB = OtherContents(hEnvA, shift, sg)
    /\ hEmbA = Raised /\ hEmbB = Raised /\ hDecA = Raised /\ hDecB = Raised
    /\ RecIdle
    /\ SplitIdle
    /\ BuildIdle

\* Both layers' parse_args + resolver block on both envelopes.
ResolvePair ==
    /\ hpc = "start"
    /\ hEmbA' = EmbeddingResolve(hAlibi, hDevice, parse_args(hEnvA))
    /\ hEmbB' = EmbeddingResolve(hAlibi, hDevice, parse_args(hEnvB))
    /\ hDecA' = DecoderResolve(hAlibi, hDevice, parse_args(hEnvA))
    /\ hDecB' = DecoderResolve(hAlibi, hDevice, parse_args(hEnvB))
    /\ hpc' = "done"
    /\ UNCHANGED <<hAlibi, hDevice, hEnvA, hEnvB, utilVars, codecVars, pipeVars, recVars, splitVars, buildVars>>

NextPair == ResolvePair

SpecPair == InitPair /\ [][NextPair]_vars

\* =============================================================== claims
AuxNames == {"attention_mask", "attn_mask_startend_row_indices", "position_ids", "alibi"}

\* The auxiliary slots of a and b agree name by name.
SameNamed(a, b) == \A f \in AuxNames : SameValue(a[f], b[f])

\* attention_mask / row-index mask and bias / row-index mask are not both set.
MutuallyExclusive(s) ==
    /\ ~(s.attention_mask # None /\ s.attn_mask_startend_row_indices # None)
    /\ ~(s.alibi # None /\ s.attn_mask_startend_row_indices # None)

AuxSeq(s) == <<s.attention_mask, s.attn_mask_startend_row_indices, s.position_ids, s.alibi>>

\* No empty auxiliary slot comes before a non-empty one.
PrefixPopulated(s) ==
    \A i \in 1..4 : \A j \in 1..4 : (i < j /\ AuxSeq(s)[i] = None) => AuxSeq(s)[j] = None

IsNonEmpty(t) == t # None

RoundTripDone == cpc = "done" /\ cencoded

\* C1 (as claimed): for every combination of empty / non-empty auxiliary
\* slots that respects the mutual-exclusion rules,
\* parse_args(return_args(...)) gives back every named slot with its value.
C1_RoundTripAllCombinations ==
    (RoundTripDone /\ MutuallyExclusive(cslots)) =>
        /\ cout.ok
        /\ cout.hidden_states = cslots.hidden_states
        /\ SameNamed(cout, cslots)

\* C1 (amended): the round trip gives back every named slot with its value
\* for the combinations that respect the mutual-exclusion rules and in which
\* no empty auxiliary slot precedes a non-empty one.
C1_RoundTripPrefix ==
    (RoundTripDone /\ MutuallyExclusive(cslots) /\ PrefixPopulated(cslots)) =>
        /\ cout.ok
        /\ cout.hidden_states = cslots.hidden_states
        /\ SameNamed(cout, cslots)

C1_Witness ==
    /\ RoundTripDone
    /\ cslots.attention_mask # None
    /\ cslots.attn_mask_startend_row_indices = None
    /\ cslots.position_ids = None /\ cslots.alibi = None
    /\ SameValue(cout.attention_mask, cslots.attention_mask)

\* Item k of the envelope, or None past its end.
ItemOrNone(e, k) == IF k <= Len(e.items) THEN e.items[k] ELSE None

\* C2: parse_args decodes by arity alone: a tuple of length n in 2..5 fills
\* the first n slots of (hidden_states, attention_mask, row-index mask,
\* position_ids, alibi) in order and leaves the rest None; a bare value is
\* hidden_states with all four auxiliary slots None.
C2_DecodeByArity ==
    (cpc = "done" /\ (~cenv.tuple \/ Len(cenv.items) \in 2..5)) =>
        /\ cout.ok
        /\ cout.hidden_states = cenv.items[1]
        /\ SameValue(cout.attention_mask, IF cenv.tuple THEN ItemOrNone(cenv, 2) ELSE None)
        /\ SameValue(cout.attn_mask_startend_row_indices,
                     IF cenv.tuple THEN ItemOrNone(cenv, 3) ELSE None)
        /\ SameValue(cout.position_ids, IF cenv.tuple THEN ItemOrNone(cenv, 4) ELSE None)
        /\ SameValue(cout.alibi, IF cenv.tuple THEN ItemOrNone(cenv, 5) ELSE None)

C2_Witness ==
    /\ cpc = "done" /\ ~cencoded /\ cenv.tuple /\ Len(cenv.items) = 3
    /\ cenv.items[2] # None /\ cenv.items[3] # None
    /\ cout.attn_mask_startend_row_indices.val = cenv.items[3].val
    /\ cout.position_ids = None

\* C3: return_args emits hidden_states followed by exactly the non-empty
\* auxiliary slots in slot order, so the arity is 1 + their number; with no
\* non-empty auxiliary slot it is the bare hidden_states, not a 1-tuple.
C3_EncodeNonEmptyInOrder ==
    (cencoded /\ cpc \in {"decode", "done"}) =>
        LET present == SelectSeq(AuxSeq(cslots), IsNonEmpty)
        IN  /\ cenv.tuple = (Len(present) > 0)
            /\ Len(cenv.items) = 1 + Len(present)
            /\ cenv.items[1] = cslots.hidden_states
            /\ \A k \in 1..Len(present) : SameValue(cenv.items[k + 1], present[k])

C3_Witness ==
    /\ cencoded /\ cpc = "decode"
    /\ cslots.attention_mask = None /\ cslots.attn_mask_startend_row_indices # None
    /\ cslots.position_ids # None /\ cslots.alibi = None
    /\ cenv.tuple /\ Len(cenv.items) = 3

\* C6: a tuple of length 0 or of length 6 or more is rejected: parse_args
\* raises and returns no slot assignment.
C6_BadArityRejected ==
    (cpc = "done" /\ cenv.tuple /\ (Len(cenv.items) = 0 \/ Len(cenv.items) >= 6)) =>
        ~cout.ok

C6_Witness ==
    cpc = "done" /\ cenv.tuple /\ Len(cenv.items) = 6 /\ ~cout.ok

\* A layer of the chain has run, decoded its envelope and resolved the slots.
LayerResolved == lastLayer \in {"embedding", "decoder"} /\ decoded.ok

\* C4: what a layer hands to return_args is what the next decoder layer has
\* after parse_args and its resolver: each of attention_mask, row-index mask,
\* position_ids and alibi is present at the receiver iff it was present at
\* the sender, with the sender's value, for every variant and backend.
C4_SlotsPreservedAcrossBoundary ==
    (lastLayer = "decoder" /\ decoded.ok) => SameNamed(resolved, prevSent)

\* C5: no layer emits an envelope whose row-index mask is non-empty together
\* with a non-empty attention_mask or a non-empty alibi; a layer whose slots
\* hold such a pair fails instead of emitting.
C5_NoExclusivePairEmitted ==
    (lastLayer \in {"embedding", "decoder"} /\ pc # "error") => MutuallyExclusive(sent)

\* C7: alibi variant, alibi slot empty, row-index slot populated: with
\* position_ids empty the row-index value becomes alibi and row-index mask
\* and position_ids end empty; with position_ids populated its value becomes
\* alibi, the row-index value becomes position_ids and the row-index mask
\* ends empty.  attention_mask is unchanged; embedding and decoder alike.
C7_AlibiRules ==
    (LayerResolved /\ config_alibi /\ decoded.alibi = None
        /\ decoded.attn_mask_startend_row_indices # None) =>
        /\ resolved.attention_mask = decoded.attention_mask
        /\ resolved.hidden_states = decoded.hidden_states
        /\ resolved.attn_mask_startend_row_indices = None
        /\ IF decoded.position_ids = None
           THEN /\ resolved.alibi = decoded.attn_mask_startend_row_indices
                /\ resolved.position_ids = None
           ELSE /\ resolved.alibi = decoded.position_ids
                /\ resolved.position_ids = decoded.attn_mask_startend_row_indices

C7_Witness ==
    /\ lastLayer = "decoder" /\ decoded.ok /\ config_alibi
    /\ decoded.alibi = None
    /\ decoded.attn_mask_startend_row_indices # None
    /\ decoded.position_ids # None
    /\ resolved.alibi = decoded.position_ids

\* C8: non-alibi variant on gpu: an int32 attention_mask slot becomes the
\* row-index mask, the former row-index slot becomes position_ids and
\* attention_mask ends empty; else an int64 attention_mask slot becomes
\* position_ids and attention_mask and row-index mask end empty; else an
\* int64 row-index slot becomes position_ids and the row-index mask ends
\* empty; otherwise the slots are unchanged.
C8_GpuRules ==
    (LayerResolved /\ ~config_alibi /\ device = "gpu") =>
        IF decoded.attention_mask # None /\ decoded.attention_mask.dtype = "int32" THEN
            /\ resolved.attention_mask = None
            /\ resolved.attn_mask_startend_row_indices = decoded.attention_mask
            /\ resolved.position_ids = decoded.attn_mask_startend_row_indices
            /\ resolved.alibi = decoded.alibi
        ELSE IF decoded.attention_mask # None /\ decoded.attention_mask.dtype = "int64" THEN
            /\ resolved.attention_mask = None
            /\ resolved.attn_mask_startend_row_indices = None
            /\ resolved.position_ids = decoded.attention_mask
            /\ resolved.alibi = decoded.alibi
        ELSE IF decoded.attn_mask_startend_row_indices # None
                /\ decoded.attn_mask_startend_row_indices.dtype = "int64" THEN
            /\ resolved.attention_mask = decoded.attention_mask
            /\ resolved.attn_mask_startend_row_indices = None
            /\ resolved.position_ids = decoded.attn_mask_startend_row_indices
            /\ resolved.alibi = decoded.alibi
        ELSE resolved = decoded

C8_Witness ==
    /\ lastLayer = "decoder" /\ decoded.ok /\ ~config_alibi /\ device = "gpu"
    /\ decoded.attention_mask.dtype = "int32"
    /\ decoded.attn_mask_startend_row_indices # None
    /\ resolved.position_ids = decoded.attn_mask_startend_row_indices

\* C9: non-alibi variant off the gpu: with position_ids empty and the
\* row-index slot populated, the row-index value becomes position_ids and the
\* row-index mask ends empty; in every other case the decoded slots are left
\* as decoded, whatever their element width.
C9_NonGpuRule ==
    (LayerResolved /\ ~config_alibi /\ device # "gpu") =>
        IF decoded.position_ids = None /\ decoded.attn_mask_startend_row_indices # None
        THEN resolved = [decoded EXCEPT
                            !.position_ids = decoded.attn_mask_startend_row_indices,
                            !.attn_mask_startend_row_indices = None]
        ELSE resolved = decoded

C9_Witness ==
    /\ lastLayer = "decoder" /\ decoded.ok /\ ~config_alibi /\ device = "xpu"
    /\ decoded.attention_mask # None
    /\ decoded.attention_mask.dtype \in {"int32", "int64"}
    /\ resolved = decoded

\* The rules of the decision table, in table order: guard i on the decoded
\* slots d, and what rule i alone makes of d.
RuleFires(i, d) ==
    LET ri == d.attn_mask_startend_row_indices
    IN  CASE i = 1 -> config_alibi /\ d.alibi = None /\ d.position_ids = None /\ ri # None
          [] i = 2 -> config_alibi /\ d.alibi = None /\ d.position_ids # None /\ ri # None
          [] i = 3 -> ~config_alibi /\ device = "gpu" /\ d.attention_mask.dtype = "int32"
          [] i = 4 -> ~config_alibi /\ device = "gpu" /\ d.attention_mask.dtype = "int64"
          [] i = 5 -> ~config_alibi /\ device = "gpu" /\ ri.dtype = "int64"
          [] i = 6 -> ~config_alibi /\ device # "gpu" /\ d.position_ids = None /\ ri # None

RuleEffect(i, d) ==
    LET ri == d.attn_mask_startend_row_indices
    IN  CASE i = 1 -> [d EXCEPT !.alibi = ri, !.position_ids = None,
                                !.attn_mask_startend_row_indices = None]
          [] i = 2 -> [d EXCEPT !.alibi = d.position_ids, !.position_ids = ri,
                                !.attn_mask_startend_row_indices = None]
          [] i = 3 -> [d EXCEPT !.attention_mask = None,
                                !.attn_mask_startend_row_indices = d.attention_mask,
                                !.position_ids = ri]
          [] i = 4 -> [d EXCEPT !.attention_mask = None,
                                !.attn_mask_startend_row_indices = None,
                                !.position_ids = d.attention_mask]
          [] i = 5 -> [d EXCEPT !.attn_mask_startend_row_indices = None, !.position_ids = ri]
          [] i = 6 -> [d EXCEPT !.position_ids = ri, !.attn_mask_startend_row_indices = None]

Firing(d) == {i \in 1..6 : RuleFires(i, d)}

FirstFiring(d) == CHOOSE i \in Firing(d) : \A j \in Firing(d) : i <= j

\* C10: the rules apply first-match: the resolved slots are what the first
\* rule whose guard holds makes of the decoded slots, no later rule acts on
\* them, and with no guard holding all decoded slots pass unchanged.
C10_FirstMatch ==
    LayerResolved =>
        resolved = IF Firing(decoded) = {} THEN decoded
                   ELSE RuleEffect(FirstFiring(decoded), decoded)

C10_Witness ==
    /\ lastLayer = "decoder" /\ decoded.ok
    /\ Cardinality(Firing(decoded)) >= 2
    /\ resolved = RuleEffect(FirstFiring(decoded), decoded)
    /\ resolved # RuleEffect(5, decoded)

\* Which decoded position (object k = item k; 0 = none) each name received.
Assignment(s) == [f \in AuxNames |-> s[f].obj]

\* C11: for every arity 1-5 the assignment of decoded positions to
\* (attention_mask, row-index mask, position_ids, alibi) depends only on
\* config.alibi, the backend and the widths of the decoded slots: two
\* envelopes that agree in those get the same assignment, and the embedding
\* layer and the decoder layer assign alike.
C11_AssignmentByWidthOnly ==
    hpc = "done" =>
        /\ hDecA.ok /\ hDecB.ok /\ hEmbA.ok /\ hEmbB.ok
        /\ Assignment(hDecA) = Assignment(hDecB)
        /\ Assignment(hEmbA) = Assignment(hEmbB)
        /\ Assignment(hEmbA) = Assignment(hDecA)

C11_Witness ==
    /\ hpc = "done" /\ ~hAlibi /\ hDevice = "gpu"
    /\ Len(hEnvA.items) = 3
    /\ hEnvA.items[2].val # hEnvB.items[2].val
    /\ hEnvA.items[2].stop_gradient # hEnvB.items[2].stop_gradient
    /\ Assignment(hDecA)["attn_mask_startend_row_indices"] = 2
    /\ Assignment(hDecB)["position_ids"] = 3

\* C12: every non-empty auxiliary slot parse_args returns has stop_gradient
\* set, for every arity; hidden_states keeps the flag it came with.
C12_AuxStopGradient ==
    (cpc = "done" /\ cout.ok) =>
        /\ \A f \in AuxNames : cout[f] # None => cout[f].stop_gradient
        /\ cout.hidden_states.stop_gradient = cenv.items[1].stop_gradient

C12_Witness ==
    /\ cpc = "done" /\ cout.ok /\ Len(cenv.items) = 5
    /\ \A k \in 2..5 : cenv.items[k] # None /\ ~cenv.items[k].stop_gradient
    /\ ~cout.hidden_states.stop_gradient
    /\ \A f \in AuxNames : cout[f].stop_gradient

\* The objects in the auxiliary places of an envelope / held in the slots.
AuxObjs(e) == {e.items[k].obj : k \in 2..Len(e.items)}
HeldObjs(s) == {s[f].obj : f \in AuxNames} \ {0}

\* C13: every auxiliary value of an emitted envelope is a fresh clone: it is
\* none of the objects the emitting layer holds, and no two envelopes
\* emitted at different boundaries share an auxiliary tensor.
C13_FreshClones ==
    /\ (lastLayer \in {"embedding", "decoder"} /\ pc # "error") =>
           /\ AuxObjs(env) \cap HeldObjs(sent) = {}
           /\ AuxObjs(env) \cap HeldObjs(decoded) = {}
           /\ Cardinality(AuxObjs(env)) = Len(env.items) - 1
    /\ \A i \in 1..Len(envLog) : \A j \in 1..Len(envLog) :
           i < j => AuxObjs(envLog[i]) \cap AuxObjs(envLog[j]) = {}

C13_Witness ==
    /\ lastLayer = "decoder" /\ pc # "error" /\ Len(envLog) >= 2
    /\ Len(envLog[1].items) >= 3 /\ Len(envLog[2].items) >= 3
    /\ HeldObjs(sent) # {}
    /\ AuxObjs(envLog[1]) \cap AuxObjs(envLog[2]) = {}

\* The layer whose forward ran: its descriptor, whether it recomputed.
RanLayer == rLayers[rIdx + 1]
Recomputed == rCall.fn # "forward"
HadGradient == ~rSlots.hidden_states.stop_gradient
Excluded == ~rNoRecompute.is_none /\ rIdx \in rNoRecompute.layers

\* C14: a decoder layer whose hidden_states carries no gradient never takes
\* the recompute path, whatever the layer index, granularity and skip map;
\* it calls the plain forward.
C14_NoGradientNoRecompute ==
    (rpc = "done" /\ ~HadGradient) => rCall.fn = "forward"

C14_Witness ==
    /\ rpc = "done" /\ ~HadGradient /\ rEnable /\ rGranularity = "full"
    /\ ~Excluded /\ AnyValue(RanLayer.skip_recompute_ops)
    /\ rCall.fn = "forward"

\* C15: the recompute decision of layer i is false if recompute is off
\* (granularity none) or i is in no_recompute_layers, and true whenever
\* recompute is on with granularity full, the input has a gradient and i is
\* not excluded; layer i is built with layerwise_recompute iff i is not in
\* no_recompute_layers.
C15_RecomputeDecision ==
    /\ rpc = "done" =>
           /\ (~rEnable \/ Excluded) => ~Recomputed
           /\ (rEnable /\ rGranularity = "full" /\ HadGradient /\ ~Excluded) => Recomputed
    /\ rpc \in {"built", "done"} =>
           \A i \in 0..(rN - 1) :
               rLayers[i + 1].layerwise_recompute
                   <=> (rNoRecompute.is_none \/ i \notin rNoRecompute.layers)

C15_Witness ==
    /\ rpc = "done" /\ rN = 2 /\ rEnable /\ rGranularity = "full"
    /\ rNoRecompute.layers = {0}
    /\ rIdx = 1 /\ HadGradient /\ Recomputed
    /\ ~rLayers[1].layerwise_recompute /\ rLayers[2].layerwise_recompute

\* The keyword arguments of a call, by slot name.
CallArgs(c) == [f \in AuxNames |-> c[f]]

\* C16: on the recompute path, in the masks-present branch and in the
\* all-masks-empty (pretrain) branch, the wrapped forward receives the same
\* position_ids, attention_mask, alibi and row-index mask as the direct
\* forward call receives for the same resolved slots.
C16_RecomputeSameArguments ==
    (rpc = "done" /\ Recomputed) =>
        /\ CallArgs(rCall) = CallArgs(DecoderCall(rSlots, FALSE, FALSE, rGranularity, FALSE, rUseReentrant))
        /\ CallArgs(rCall) = [f \in AuxNames |-> rSlots[f]]

C16_Witness ==
    /\ rpc = "done" /\ Recomputed
    /\ rSlots.attention_mask = None /\ rSlots.alibi = None
    /\ rSlots.attn_mask_startend_row_indices = None
    /\ rSlots.position_ids # None /\ rCall.position_ids = rSlots.position_ids
    /\ rCall.use_reentrant

\* C17: a recomputing decoder layer uses the refined recompute function iff
\* at least one entry of its skip map is true, and the standard recompute
\* function iff every entry is false or the map is empty.
C17_RefinedIffAnySkip ==
    (rpc = "done" /\ Recomputed) =>
        LET ops == RanLayer.skip_recompute_ops
        IN  /\ rCall.fn = "rr_recompute" <=> (\E k \in DOMAIN ops : ops[k])
            /\ rCall.fn = "recompute" <=> (\A k \in DOMAIN ops : ~ops[k])

C17_Witness ==
    /\ rpc = "done" /\ rCall.fn = "rr_recompute"
    /\ DOMAIN RanLayer.skip_recompute_ops = OpNames
    /\ RanLayer.skip_recompute_ops["flash_attn"]
    /\ ~RanLayer.skip_recompute_ops["mlp_row_ln"]

\* The field of a mapping, or None where the mapping lacks it.
FieldOrNone(mapping, f) == IF f \in DOMAIN mapping THEN mapping[f] ELSE NoneField

\* C18: for a single mapping the splitter returns [first, last]: first is a
\* 4-tuple (input_ids, attention_mask, attn_mask_startend_row_indices,
\* position_ids) with None for each field the mapping lacks, last is the bare
\* labels value (None when absent), never a one-element tuple; a missing
\* field raises nothing.
C18_SingleMappingSplit ==
    (spc = "done" /\ sInputs.type \in {"dict", "OrderedDict"}) =>
        /\ sOut.ok
        /\ sOut.first = Tuple(<<FieldOrNone(sInputs.data, "input_ids"),
                                 FieldOrNone(sInputs.data, "attention_mask"),
                                 FieldOrNone(sInputs.data, "attn_mask_startend_row_indices"),
                                 FieldOrNone(sInputs.data, "position_ids")>>)
        /\ sOut.last = Bare(FieldOrNone(sInputs.data, "labels"))

C18_Witness ==
    /\ spc = "done" /\ sInputs.type = "dict"
    /\ DOMAIN sInputs.data = {"input_ids", "attention_mask", "labels"}
    /\ sOut.first.items = <<Value(11), Value(12), NoneField, NoneField>>
    /\ sOut.last = Bare(Value(15))

\* Every example of the batch carries the same fields.
SameFields == \A j \in 1..Len(sInputs.data) : DOMAIN sInputs.data[j] = DOMAIN sInputs.data[1]

\* The examples' values of field f in example order, or None where the
\* examples lack the field.
ColumnOrNone(f) ==
    IF f \in DOMAIN sInputs.data[1]
    THEN [kind |-> "list",
          v |-> [j \in 1..Len(sInputs.data) |-> sInputs.data[j][f].v[1]]]
    ELSE NoneField

\* C19: for a sequence of n >= 1 examples carrying the same set of fields,
\* whatever the set, the splitter returns one first-stage tuple whose
\* present fields are the n-element sequences of the examples' values in
\* example order, and one last-stage value, not n separate tuples.
C19_BatchTransposedThenSplit ==
    (spc = "done" /\ sInputs.type = "list" /\ SameFields) =>
        /\ sOut.ok
        /\ sOut.first = Tuple(<<ColumnOrNone("input_ids"),
                                 ColumnOrNone("attention_mask"),
                                 ColumnOrNone("attn_mask_startend_row_indices"),
                                 ColumnOrNone("position_ids")>>)
        /\ sOut.last = Bare(ColumnOrNone("labels"))
        /\ \A k \in 1..4 : sOut.first.items[k] # NoneField
               => Len(sOut.first.items[k].v) = Len(sInputs.data)

C19_Witness ==
    /\ spc = "done" /\ sInputs.type = "list" /\ Len(sInputs.data) = 2
    /\ DOMAIN sInputs.data[1] = {"input_ids", "labels"}
    /\ DOMAIN sInputs.data[2] = {"input_ids", "labels"}
    /\ sOut.first.items = <<List(<<11, 21>>), NoneField, NoneField, NoneField>>
    /\ sOut.last = Bare(List(<<15, 25>>))

\* C20: the segmentation method handed to the partitioner is the
\* block-aligned one, "layer:LlamaDecoderLayer", iff the number of decoder
\* layers is divisible by the number of pipeline stages, and "uniform"
\* otherwise.
C20_SegMethodByDivisibility ==
    bpc = "built" =>
        LET divisible == \E q \in 0..bConfig.num_hidden_layers :
                             q * bConfig.pipe = bConfig.num_hidden_layers
        IN  /\ bArgs.seg_method = "layer:LlamaDecoderLayer" <=> divisible
            /\ bArgs.seg_method = "uniform" <=> ~divisible

C20_Witness ==
    /\ bpc = "built" /\ bConfig.num_hidden_layers = 2 /\ bConfig.pipe = 3
    /\ bArgs.seg_method = "uniform"
    /\ Len(bLayers) = 5

\* C22: with tied word embeddings exactly two descriptors of the catalog, the
\* embedding (first) and the head (last), are bound to one shared-weight
\* group under the same shared attribute, so a write to the shared tensor
\* through one binding is seen through the other; without tying no
\* descriptor belongs to a shared-weight group.
C22_TiedEmbeddingsShareOneGroup ==
    bpc = "built" =>
        LET n == Len(bLayers)
            shared == {k \in 1..n : bLayers[k].desc = "SharedLayerDesc"}
        IN  IF bConfig.tie_word_embeddings
            THEN /\ shared = {1, n}
                 /\ bLayers[1].layer = "LlamaEmbeddingPipe"
                 /\ bLayers[n].layer = "LlamaLMHeadPipe"
                 /\ bLayers[1].key = bLayers[n].key /\ bLayers[1].key # ""
                 /\ bLayers[1].shared_weight_attr = bLayers[n].shared_weight_attr
                 /\ \A k \in shared :
                        bLayers[k].shared_weight_attr \in LayerAttrs(bLayers[k].layer)
                 /\ bWrite.via # 0 =>
                        \A k \in shared : ReadShared(bShared, bLayers[k]) = bWrite.value
            ELSE /\ shared = {}
                 /\ \A k \in 1..n : bLayers[k].key = ""
                 /\ DOMAIN bShared = {}

C22_Witness ==
    /\ bpc = "built" /\ bConfig.tie_word_embeddings
    /\ bWrite = [via |-> 1, value |-> 2]
    /\ ReadShared(bShared, bLayers[Len(bLayers)]) = 2

\* The interval in progress when the last call was made.
InProgress == IF tLast.before.started_ THEN tLast.at - tLast.before.start_time ELSE 0

\* C27: start() on a started timer and stop() on a timer that is not started
\* fail with an assertion error and leave started_ and elapsed_ as they
\* were; over any calls of start/stop/reset/elapsed the accumulated time
\* grows only by the length of a start-stop interval that a call completes
\* and becomes zero only by a reset.
C27_TimerAssertsAndAccumulates ==
    /\ (tLast.op = "start" /\ tLast.before.started_) =>
           /\ tLast.raised
           /\ timer.started_ = tLast.before.started_
           /\ timer.elapsed_ = tLast.before.elapsed_
    /\ (tLast.op = "stop" /\ ~tLast.before.started_) =>
           /\ tLast.raised
           /\ timer.started_ = tLast.before.started_
           /\ timer.elapsed_ = tLast.before.elapsed_
    /\ (tLast.op \in {"start", "stop", "reset", "elapsed"}
           /\ timer.elapsed_ # tLast.before.elapsed_) =>
           \/ /\ tLast.op \in {"stop", "elapsed"} /\ tLast.before.started_
              /\ timer.elapsed_ = tLast.before.elapsed_ + InProgress
              /\ InProgress > 0
           \/ /\ timer.elapsed_ = 0
              /\ tLast.op = "reset" \/ (tLast.op = "elapsed" /\ tLast.reset_flag)

C27_Witness ==
    /\ tLast.op = "stop" /\ ~tLast.before.started_ /\ tLast.raised
    /\ timer.elapsed_ = 2 /\ tLast.before.elapsed_ = 2

\* C28: elapsed(reset) leaves a running timer running and a stopped timer
\* stopped, and returns the time accumulated since the last reset with the
\* interval in progress; afterwards the accumulated time is zero with
\* reset=True and retained with reset=False.
C28_ElapsedKeepsRunningState ==
    tLast.op = "elapsed" =>
        /\ ~tLast.raised
        /\ timer.started_ = tLast.before.started_
        /\ tLast.ret = tLast.before.elapsed_ + InProgress
        /\ tLast.reset_flag => timer.elapsed_ = 0
        /\ ~tLast.reset_flag => timer.elapsed_ = tLast.ret
        /\ timer.started_ => timer.start_time = tLast.at

C28_Witness ==
    /\ tLast.op = "elapsed" /\ ~tLast.reset_flag
    /\ tLast.before.started_ /\ timer.started_
    /\ tLast.before.elapsed_ = 1 /\ InProgress = 2 /\ tLast.ret = 3
    /\ timer.elapsed_ = 3

\* C23: on both pooling paths an unsupported pooling method, and an
\* unsupported padding side where the pooling depends on the side (method
\* "last"), is a fatal error whose message names the invalid value.
C23_InvalidValueNamed ==
    poolPath \in {"sentence_embedding", "encode_sentences"} =>
        /\ poolIn.method \notin {"mean", "cls", "last"} =>
               poolOut.kind # "ok" /\ poolOut.names = poolIn.method
        /\ (poolIn.method = "last" /\ poolIn.padding_side \notin {"left", "right"}) =>
               poolOut.kind # "ok" /\ poolOut.names = poolIn.padding_side

\* C24: when close() returns, every record passed to append() before that
\* close() is in the metrics file, once each and in append order, and the
\* writer process has exited.
C24_CloseFlushesEveryRecord ==
    dClose.state = "returned" =>
        /\ dFile = [i \in 1..Len(dClose.before) |-> dClose.before[i].id]
        /\ dWriter = "exited"

\* C25: when SIGINT or SIGTERM reaches the main process the signal handler
\* completes without error, having told the writer to stop and closed the
\* dumper.
C25_SignalHandlerClosesDumper ==
    dSignal.sig # "none" =>
        /\ ~dSignal.handler_raised
        /\ dSignal.stop_signalled
        /\ dSignal.closed

\* C26 as stated: over any sequence of calls of warning_once, a call emits
\* the warning exactly when it is the first call with its message; so each
\* message is emitted once, by its first call, and no later call emits.
C26_EmittedOnceByFirstCall ==
    \A i \in 1..Len(wCalls) :
        wCalls[i].emitted <=> (\A j \in 1..(i - 1) : wCalls[j].msg # wCalls[i].msg)

\* C26 (amended): a call of warning_once emits the warning exactly when it is
\* the first call with its arguments and the logger, at that call, is enabled
\* at a level that admits WARNING; every later call with the same arguments
\* emits nothing.
C26_FirstCallPerArgumentsEmitsIfEnabled ==
    \A i \in 1..Len(wCalls) :
        wCalls[i].emitted <=>
            /\ wCalls[i].enabled
            /\ \A j \in 1..(i - 1) :
                   <<wCalls[j].args, wCalls[j].kwargs>> # <<wCalls[i].args, wCalls[i].kwargs>>

\* A first call emitted and a repeat of it, made while the logger would
\* emit, did not; a first call made while the logger was disabled or above
\* WARNING emitted nothing.
C26_Witness ==
    /\ \E i, j \in 1..Len(wCalls) :
           /\ i < j /\ wCalls[i].emitted /\ ~wCalls[j].emitted /\ wCalls[j].enabled
           /\ wCalls[i].args = wCalls[j].args /\ wCalls[i].kwargs = wCalls[j].kwargs
    /\ \E k \in 1..Len(wCalls) :
           /\ ~wCalls[k].enabled /\ ~wCalls[k].emitted
           /\ \A j \in 1..(k - 1) : wCalls[j].msg # wCalls[k].msg

\* C29: however the with-block of processing is left, normally or by an
\* exception, the printer thread stops: `while not end` is the thread's only
\* way out, so once the block is left the end flag is set or the thread has
\* terminated.
C29_PrinterStopsWhenBlockLeft ==
    gBlock \in {"left", "raised"} => (gEnd \/ gPrinter = "terminated")

\* C30: a message logged by a thread outside every use_terminator context is
\* written with the handler's default terminator, whatever the printer
\* thread is doing; and when no use_terminator context is open the handler's
\* terminator is the one it had before the first was entered.
C30_TerminatorConfinedToContext ==
    /\ (gLast.thread # "none" /\ ~gLast.inside) => gLast.terminator = DefaultTerminator
    /\ (gMainCtx = "out" /\ gPrinter \in PrinterOutside) => gTerm = DefaultTerminator

\* C31: for each supported pooling method and a right-padded input, the
\* pooling of encode_sentences selects the positions of the last hidden
\* state that sentence_embedding selects; on both paths "cls" selects
\* position 0 and "last" selects position (number of unmasked tokens - 1).
C31_PoolingPathsAgree ==
    (/\ poolPath \in {"sentence_embedding", "encode_sentences"}
     /\ poolIn.method \in {"mean", "cls", "last"}
     /\ poolIn.padding_side = "right") =>
        /\ poolOut = sentence_embedding(poolIn.method, poolIn.mask)
        /\ poolIn.method = "cls" => poolOut = Selected({0})
        /\ poolIn.method = "last" => poolOut = Selected({MaskSum(poolIn.mask) - 1})

====
